---------------------------- MODULE Spec2Model ----------------------------
(***************************************************************************)
(* Model of the opportunity validator of build-signals                     *)
(* (scripts/validate_opportunities.py): the three evidence executors, the  *)
(* three evidence summarizers, the confidence aggregator and the           *)
(* orchestrator main().                                                    *)
(*                                                                         *)
(* Text that the code inspects character by character (queries, titles,    *)
(* product names and taglines, error messages) is a sequence of            *)
(* one-character strings; text that the code only formats is a string.     *)
(***************************************************************************)
EXTENDS Integers, Sequences, FiniteSets, TLC

VARIABLES
    pc,        \* position of the run / of the unit under analysis
    arg,       \* inputs of the unit under analysis (queries, credential, remote outcomes)
    ev,        \* evidence object returned by the executor under analysis
    ret,       \* value returned by the summarizer / aggregator under analysis
    env,       \* main(): api_key, github_token, ph_token, batch_size, product corpus
    signals,   \* main(): the loaded signals
    classifications, \* main(): classifications[i], absent until the classifier sets it
    evidence_list,   \* main(): one evidence bundle per processed signal
    narratives,      \* main(): narratives[i], absent until the synthesizer sets it
    idx,       \* main(): loop index of the current stage (batch number or signal index)
    cur,       \* main(): the evidence objects of the signal being processed
    outfile,   \* validated_opportunities.jsonl: written flag and records
    crash,     \* why the run ended abnormally ("" while it has not)
    table      \* supabase_loader: the rows of the validated_opportunities table

vars == <<pc, arg, ev, ret, env, signals, classifications, evidence_list,
          narratives, idx, cur, outfile, crash, table>>

----------------------------------------------------------------------------
(* Bounds of the model.                                                    *)

MaxQueries == 2
MaxCorpus == 2
MaxSignals == 2
MaxResp == 2
MaxRetryResp == 1

----------------------------------------------------------------------------
(* Text helpers.                                                           *)

UpperChars == <<"A","B","C","D","E","F","G","H","I","J","K","L","M",
                "N","O","P","Q","R","S","T","U","V","W","X","Y","Z">>

LowerChars == <<"a","b","c","d","e","f","g","h","i","j","k","l","m",
                "n","o","p","q","r","s","t","u","v","w","x","y","z">>

\* str.lower() on one character
LowerChar(c) ==
    IF \E k \in 1..26 : UpperChars[k] = c
    THEN LowerChars[CHOOSE k \in 1..26 : UpperChars[k] = c]
    ELSE c

\* str.lower()
Lower(s) == [k \in 1..Len(s) |-> LowerChar(s[k])]

IsSpace(c) == c \in {" ", "\t", "\n"}

\* `needle in hay` for non-empty and empty needles alike
Contains(hay, needle) ==
    \E k \in 0..(Len(hay) - Len(needle)) :
        \A j \in 1..Len(needle) : hay[k + j] = needle[j]

RECURSIVE SplitFrom(_, _, _)
\* str.split(): the maximal runs of non-whitespace characters, in order
SplitFrom(s, k, word) ==
    IF k > Len(s)
    THEN IF word = <<>> THEN <<>> ELSE <<word>>
    ELSE IF IsSpace(s[k])
         THEN (IF word = <<>> THEN <<>> ELSE <<word>>) \o SplitFrom(s, k + 1, <<>>)
         ELSE SplitFrom(s, k + 1, Append(word, s[k]))

Split(s) == SplitFrom(s, 1, <<>>)

RECURSIVE LStrip(_, _)
\* s without its leading characters that belong to drop
LStrip(s, drop) ==
    IF s # <<>> /\ Head(s) \in drop THEN LStrip(Tail(s), drop) ELSE s

RECURSIVE RStrip(_, _)
RStrip(s, drop) ==
    IF s # <<>> /\ s[Len(s)] \in drop THEN RStrip(SubSeq(s, 1, Len(s) - 1), drop) ELSE s

Whitespace == {" ", "\t", "\n"}

\* str.strip()
Strip(s) == RStrip(LStrip(s, Whitespace), Whitespace)

\* str.strip('"')
StripQuotes(s) == RStrip(LStrip(s, {"\""}), {"\""})

\* str.replace(a, b) for single characters
ReplaceChar(s, a, b) == [k \in 1..Len(s) |-> IF s[k] = a THEN b ELSE s[k]]

RECURSIVE SplitOnFrom(_, _, _, _)
\* str.split(sep) for a one-character separator: empty parts are kept
SplitOnFrom(s, sep, k, part) ==
    IF k > Len(s) THEN <<part>>
    ELSE IF s[k] = sep
         THEN <<part>> \o SplitOnFrom(s, sep, k + 1, <<>>)
         ELSE SplitOnFrom(s, sep, k + 1, Append(part, s[k]))

SplitOn(s, sep) == SplitOnFrom(s, sep, 1, <<>>)

RECURSIVE Dedupe(_, _)
\* the elements not seen before, in order
Dedupe(s, seen) ==
    IF s = <<>> THEN <<>>
    ELSE IF Head(s) \in seen THEN Dedupe(Tail(s), seen)
         ELSE <<Head(s)>> \o Dedupe(Tail(s), seen \cup {Head(s)})

RECURSIVE Str(_)
\* the string a character sequence spells
Str(s) == IF s = <<>> THEN "" ELSE Head(s) \o Str(Tail(s))

Abs(n) == IF n < 0 THEN 0 - n ELSE n

\* n / d rounded to the nearest integer, ties to even (d > 0)
RoundHalfEven(n, d) ==
    LET q == n \div d
        r == n - q * d
    IN  IF 2 * r < d THEN q
        ELSE IF 2 * r > d THEN q + 1
        ELSE IF q % 2 = 0 THEN q ELSE q + 1

\* f"{yoy:+.0f}" for a value held in tenths
FormatSigned(tenths) ==
    (IF tenths < 0 THEN "-" ELSE "+") \o ToString(Abs(RoundHalfEven(tenths, 10)))

Pad3(n) ==
    IF n < 10 THEN "00" \o ToString(n)
    ELSE IF n < 100 THEN "0" \o ToString(n) ELSE ToString(n)

\* f"{stars:,}" for 0 <= n < 10^6
FormatThousands(n) ==
    IF n < 1000 THEN ToString(n)
    ELSE ToString(n \div 1000) \o "," \o Pad3(n % 1000)

RECURSIVE SumSeq(_)
SumSeq(s) == IF s = <<>> THEN 0 ELSE Head(s) + SumSeq(Tail(s))

\* s[:n]
Take(s, n) == SubSeq(s, 1, IF Len(s) < n THEN Len(s) ELSE n)

\* all sequences over S of length lo..hi
SeqsOf(S, lo, hi) == UNION {[1..n -> S] : n \in lo..hi}

\* the sequences over S of length lo..hi without a repeated element
DistinctSeqsOf(S, lo, hi) ==
    {q \in SeqsOf(S, lo, hi) : \A i, j \in 1..Len(q) : i # j => q[i] # q[j]}

----------------------------------------------------------------------------
(* Confidence aggregator.                                                  *)

\* _hn_strength with the thresholds of a plausible off-by-one slip
hn_strength_strict(signal) ==
    (signal.score > 30) \/ (signal.comments > 20)
        \/ (signal.score > 15 /\ signal.comments > 10)

hn_strength(signal) ==
    (signal.score >= 30) \/ (signal.comments >= 20)
        \/ (signal.score >= 15 /\ signal.comments >= 10)

Bit(b) == IF b THEN 1 ELSE 0

\* compute_confidence that forgets the origin signal
compute_confidence_no_origin(signal, gt_support, ph_support, gh_support) ==
    LET total_sources == Bit(gt_support) + Bit(ph_support) + Bit(gh_support)
    IN  [confidence |-> IF total_sources >= 3 THEN "high"
                        ELSE IF total_sources = 2 THEN "medium" ELSE "low",
         sources_confirming |-> total_sources]

compute_confidence(signal, gt_support, ph_support, gh_support) ==
    LET hn_support == hn_strength(signal)
        total_sources == Bit(hn_support)
                           + (Bit(gt_support) + Bit(ph_support) + Bit(gh_support))
    IN  [confidence |-> IF total_sources >= 3 THEN "high"
                        ELSE IF total_sources = 2 THEN "medium" ELSE "low",
         sources_confirming |-> total_sources]

----------------------------------------------------------------------------
(* Evidence summarizers.  An evidence object is                            *)
(*   [status, source, results];                                            *)
(* a search-interest result is [query, interest, yoy_growth] with          *)
(* yoy_growth in tenths of a percent; a code-search result is              *)
(* [query, status, total_count, repos]; a product-search result is         *)
(* [query, status, total, products, source].                               *)

\* the key of max() in summarize_trends: (interest, yoy_growth)
TrendKeyLess(a, b) ==
    \/ a.interest < b.interest
    \/ a.interest = b.interest /\ a.yoy_growth < b.yoy_growth

\* max(results, key=...): the first result no other result exceeds
TopTrend(results) ==
    LET top == CHOOSE k \in 1..Len(results) :
                 /\ \A j \in 1..Len(results) : ~TrendKeyLess(results[k], results[j])
                 /\ \A j \in 1..(k - 1) : TrendKeyLess(results[j], results[k])
    IN  results[top]

TrendQualifies(r) ==
    (r.interest >= 10 /\ r.yoy_growth > 0) \/ r.interest >= 20

\* summarize_trends without the status test
summarize_trends_any_status(evidence) ==
    LET results == evidence.results
    IN  IF results = <<>>
        THEN [summary |-> "No Google Trends data available.", supporting |-> FALSE]
        ELSE LET top == TopTrend(results)
                 tail == Str(top.query) \o "' shows interest " \o ToString(top.interest)
                           \o " and YoY " \o FormatSigned(top.yoy_growth) \o "%."
             IN  IF \E k \in 1..Len(results) : TrendQualifies(results[k])
                 THEN [summary |-> "Search demand present. Top query '" \o tail,
                       supporting |-> TRUE]
                 ELSE [summary |-> "Search demand weak or flat. Top query '" \o tail,
                       supporting |-> FALSE]

summarize_trends(evidence) ==
    LET results == evidence.results
    IN  IF evidence.status # "ok" \/ results = <<>>
        THEN [summary |-> "No Google Trends data available.", supporting |-> FALSE]
        ELSE LET top == TopTrend(results)
             IN  IF \E k \in 1..Len(results) : TrendQualifies(results[k])
                 THEN [summary |-> "Search demand present. Top query '" \o Str(top.query)
                                     \o "' shows interest " \o ToString(top.interest)
                                     \o " and YoY " \o FormatSigned(top.yoy_growth) \o "%.",
                       supporting |-> TRUE]
                 ELSE [summary |-> "Search demand weak or flat. Top query '" \o Str(top.query)
                                     \o "' has interest " \o ToString(top.interest)
                                     \o " and YoY " \o FormatSigned(top.yoy_growth) \o "%.",
                       supporting |-> FALSE]

RECURSIVE Flatten(_)
\* the concatenation of a sequence of sequences
Flatten(ss) == IF ss = <<>> THEN <<>> ELSE Head(ss) \o Flatten(Tail(ss))

AllProducts(results) == Flatten([k \in 1..Len(results) |-> results[k].products])

\* the product the loop of summarize_producthunt ends with: the first of most votes
TopProduct(products) ==
    LET top == CHOOSE k \in 1..Len(products) :
                 /\ \A j \in 1..Len(products) : products[j].votes <= products[k].votes
                 /\ \A j \in 1..(k - 1) : products[j].votes < products[k].votes
    IN  products[top]

\* summarize_producthunt that wants more than one product
summarize_producthunt_two(evidence) ==
    LET products == AllProducts(evidence.results)
    IN  IF evidence.status # "ok" \/ evidence.results = <<>>
        THEN [summary |-> "No Product Hunt data available.", supporting |-> FALSE]
        ELSE IF Len(products) <= 1
        THEN [summary |-> "No relevant products found on Product Hunt.",
              supporting |-> FALSE]
        ELSE [summary |-> "Found " \o ToString(Len(products)) \o " related products. Top: "
                            \o Str(TopProduct(products).name) \o " ("
                            \o ToString(TopProduct(products).votes) \o " votes).",
              supporting |-> TRUE]

summarize_producthunt(evidence) ==
    LET results == evidence.results
        products == AllProducts(results)
        total_products == Len(products)
    IN  IF evidence.status # "ok" \/ results = <<>>
        THEN [summary |-> "No Product Hunt data available.", supporting |-> FALSE]
        ELSE IF total_products = 0
        THEN [summary |-> "No relevant products found on Product Hunt.",
              supporting |-> FALSE]
        ELSE LET top_product == TopProduct(products)
             IN  [summary |-> "Found " \o ToString(total_products)
                                \o " related products. Top: " \o Str(top_product.name)
                                \o " (" \o ToString(top_product.votes) \o " votes).",
                  supporting |-> TRUE]

AllReposRaw(results) == Flatten([k \in 1..Len(results) |-> results[k].repos])

RECURSIVE DedupeByName(_, _)
\* the repos with a non-empty name not seen before, in order
DedupeByName(repos, seen) ==
    IF repos = <<>> THEN <<>>
    ELSE LET repo == Head(repos)
         IN  IF repo.name # "" /\ repo.name \notin seen
             THEN <<repo>> \o DedupeByName(Tail(repos), seen \cup {repo.name})
             ELSE DedupeByName(Tail(repos), seen)

RECURSIVE InsertByStars(_, _)
\* repo placed after every repo of at least its stars (a stable descending sort)
InsertByStars(sorted, repo) ==
    IF sorted = <<>> THEN <<repo>>
    ELSE IF Head(sorted).stars >= repo.stars
         THEN <<Head(sorted)>> \o InsertByStars(Tail(sorted), repo)
         ELSE <<repo>> \o sorted

RECURSIVE SortByStars(_)
\* list.sort(key=stars, reverse=True)
SortByStars(repos) ==
    IF repos = <<>> THEN <<>>
    ELSE InsertByStars(SortByStars(SubSeq(repos, 1, Len(repos) - 1)), repos[Len(repos)])

RepoDetail(repo) ==
    repo.name \o " (" \o FormatThousands(repo.stars) \o " stars"
        \o (IF repo.language # "" THEN ", " \o repo.language ELSE "") \o ")"
        \o (IF repo.description # "" THEN " - " \o repo.description ELSE "")

RECURSIVE JoinBar(_)
\* " | ".join(parts)
JoinBar(parts) ==
    IF Len(parts) = 1 THEN Head(parts)
    ELSE Head(parts) \o " | " \o JoinBar(Tail(parts))

summarize_github(evidence) ==
    LET results == evidence.results
        total_repos == Len(AllReposRaw(results))
    IN  IF evidence.status # "ok" \/ results = <<>>
        THEN [summary |-> "No GitHub data available.", supporting |-> FALSE]
        ELSE IF total_repos = 0
        THEN [summary |-> "No relevant repos found on GitHub search.",
              supporting |-> FALSE]
        ELSE LET all_repos == SortByStars(DedupeByName(AllReposRaw(results), {}))
                 support == \/ (all_repos # <<>> /\ all_repos[1].stars >= 50)
                            \/ total_repos >= 3
                 top3 == Take(all_repos, 3)
                 parts == <<"Found " \o ToString(Len(all_repos)) \o " unique repos across "
                              \o ToString(Len(results)) \o " queries.">>
                          \o [k \in 1..Len(top3) |-> RepoDetail(top3[k])]
             IN  [summary |-> JoinBar(parts), supporting |-> support]

----------------------------------------------------------------------------
(* Evidence executors.  Each is a function of its arguments and of what    *)
(* the remote side does during the call; it yields                         *)
(*   [raised, status, source, results]                                     *)
(* where raised = TRUE stands for an exception leaving the executor.       *)

QueryCap == 5

Raised == [raised |-> TRUE, status |-> "", source |-> "", results |-> <<>>]

Returned(status, source, results) ==
    [raised |-> FALSE, status |-> status, source |-> source, results |-> results]

\* the rate-limit test of the except branch without the lowercasing
IsRateLimitMessageCaseSensitive(msg) ==
    \/ Contains(msg, <<"4", "2", "9">>)
    \/ Contains(msg, <<"t", "o", "o", " ", "m", "a", "n", "y">>)
    \/ Contains(msg, <<"b", "l", "o", "c", "k", "e", "d">>)

\* "429" in msg or "too many" in msg or "blocked" in msg, msg lowercased
IsRateLimitMessage(msg) ==
    LET error_msg == Lower(msg)
    IN  \/ Contains(error_msg, <<"4", "2", "9">>)
        \/ Contains(error_msg, <<"t", "o", "o", " ", "m", "a", "n", "y">>)
        \/ Contains(error_msg, <<"b", "l", "o", "c", "k", "e", "d">>)

\* year-over-year growth in tenths of a percent: round(x, 1) of the percentage
YoY(current, year_ago) ==
    IF year_ago > 0
    THEN RoundHalfEven((current - year_ago) * 1000, year_ago)
    ELSE IF current > 0 THEN 1000 ELSE 0

ZeroTrend(q) == [query |-> q, interest |-> 0, yoy_growth |-> 0]

RECURSIVE TrendsKeywords(_, _, _, _)
\* the loop over the keywords of one batch; columns[k] is what the returned
\* frame holds for batch[k]: no column, a column that fails to convert, or a series
TrendsKeywords(batch, columns, k, results) ==
    IF k > Len(batch) THEN [failed |-> FALSE, msg |-> <<>>, results |-> results]
    ELSE LET c == columns[k]
         IN  IF c.kind = "missing"
             THEN TrendsKeywords(batch, columns, k + 1, Append(results, ZeroTrend(batch[k])))
             ELSE IF c.kind = "raise"
             THEN [failed |-> TRUE, msg |-> c.msg, results |-> results]
             ELSE TrendsKeywords(batch, columns, k + 1,
                      Append(results, [query |-> batch[k], interest |-> c.current,
                                       yoy_growth |-> YoY(c.current, c.year_ago)]))

\* the except branch of execute_google_trends
TrendsFailure(msg, results) ==
    IF IsRateLimitMessage(msg)
    THEN Returned("rate_limited", "", results)
    ELSE Returned("error", "", results)

\* e.installed: pytrends imports; e.ctor_ok: TrendReq() succeeds;
\* e.fetch: what build_payload / interest_over_time do; e.columns: see above
execute_google_trends(queries, e) ==
    IF ~e.installed THEN Returned("skipped", "", <<>>)
    ELSE IF ~e.ctor_ok THEN Raised
    ELSE LET batch == Take(queries, QueryCap)
         IN  IF batch = <<>> THEN Returned("ok", "", <<>>)
             ELSE IF e.fetch.kind = "raise" THEN TrendsFailure(e.fetch.msg, <<>>)
             ELSE IF e.fetch.kind = "empty"
             THEN Returned("ok", "", [k \in 1..Len(batch) |-> ZeroTrend(batch[k])])
             ELSE LET r == TrendsKeywords(batch, e.columns, 1, <<>>)
                  IN  IF r.failed THEN TrendsFailure(r.msg, r.results)
                      ELSE Returned("ok", "", r.results)

RECURSIVE GithubQueriesNoBreak(_, _, _, _)
\* the loop of execute_github_search without the break after HTTP 403
GithubQueriesNoBreak(qs, responses, k, results) ==
    IF k > Len(qs) THEN results
    ELSE LET resp == responses[k]
         IN  IF resp.kind \in {"403", "error"}
             THEN GithubQueriesNoBreak(qs, responses, k + 1,
                      Append(results, [query |-> qs[k],
                                       status |-> IF resp.kind = "403" THEN "rate_limited"
                                                  ELSE "error",
                                       total_count |-> 0, repos |-> <<>>]))
             ELSE GithubQueriesNoBreak(qs, responses, k + 1,
                      Append(results, [query |-> qs[k], status |-> "",
                                       total_count |-> resp.total_count,
                                       repos |-> Take(resp.items, 5)]))

RECURSIVE GithubQueries(_, _, _, _)
\* the loop of execute_github_search; responses[k] answers the k-th request
GithubQueries(qs, responses, k, results) ==
    IF k > Len(qs) THEN results
    ELSE LET resp == responses[k]
         IN  IF resp.kind = "403"
             THEN Append(results, [query |-> qs[k], status |-> "rate_limited",
                                   total_count |-> 0, repos |-> <<>>])
             ELSE IF resp.kind = "error"
             THEN GithubQueries(qs, responses, k + 1,
                      Append(results, [query |-> qs[k], status |-> "error",
                                       total_count |-> 0, repos |-> <<>>]))
             ELSE GithubQueries(qs, responses, k + 1,
                      Append(results, [query |-> qs[k], status |-> "",
                                       total_count |-> resp.total_count,
                                       repos |-> Take(resp.items, 5)]))

execute_github_search(queries, token, responses) ==
    IF ~token THEN Returned("skipped", "", <<>>)
    ELSE Returned("ok", "", GithubQueries(Take(queries, QueryCap), responses, 1, <<>>))

\* one remote product search: HTTP status other than 200, an exception, or edges
ProductHuntRemoteEntry(q, resp) ==
    IF resp.kind = "ok"
    THEN [query |-> q, status |-> "", total |-> Len(Take(resp.products, 5)),
          products |-> Take(resp.products, 5), source |-> ""]
    ELSE [query |-> q, status |-> "error", total |-> 0, products |-> <<>>, source |-> ""]

\* LocalMatch that compares without lowercasing the product text
LocalMatchCaseSensitive(q, p) ==
    LET title == p.title \o <<" ">> \o p.tagline
        words == Split(Lower(q))
    IN  \E k \in 1..Len(words) : Contains(title, words[k])

\* any(word in title for word in q_lower.split()), title = title + " " + tagline lowercased
LocalMatch(q, p) ==
    LET title == Lower(p.title \o <<" ">> \o p.tagline)
        words == Split(Lower(q))
    IN  \E k \in 1..Len(words) : Contains(title, words[k])

RECURSIVE LocalMatches(_, _)
\* the products of the corpus that match q, in corpus order
LocalMatches(q, local_products) ==
    IF local_products = <<>> THEN <<>>
    ELSE LET p == Head(local_products)
         IN  (IF LocalMatch(q, p)
              THEN <<[name |-> p.title, tagline |-> p.tagline, votes |-> p.votes]>>
              ELSE <<>>) \o LocalMatches(q, Tail(local_products))

LocalFallbackEntry(q, local_products) ==
    LET matches == LocalMatches(q, local_products)
    IN  [query |-> q, status |-> "", total |-> Len(matches),
         products |-> Take(matches, 5), source |-> "local_fallback"]

\* fallback.lines[k].kind: "blank", "malformed" (json.loads raises) or "product"
execute_producthunt_search(queries, token, fallback, responses) ==
    LET qs == Take(queries, QueryCap)
        results == IF token
                   THEN [k \in 1..Len(qs) |-> ProductHuntRemoteEntry(qs[k], responses[k])]
                   ELSE <<>>
    IN  IF token /\ \E k \in 1..Len(results) : results[k].total > 0
        THEN Returned("ok", "", results)
        ELSE IF fallback.exists
        THEN IF \E k \in 1..Len(fallback.lines) : fallback.lines[k].kind = "malformed"
             THEN Raised
             ELSE LET local_products == SelectSeq(fallback.lines,
                                                  LAMBDA l : l.kind = "product")
                  IN  Returned("ok", "local_fallback",
                               [k \in 1..Len(qs) |-> LocalFallbackEntry(qs[k], local_products)])
        ELSE IF ~token THEN Returned("skipped", "", <<>>)
        ELSE Returned("ok", "", results)

----------------------------------------------------------------------------
(* Inputs of the units.                                                    *)

MaxScore == 31
MaxComments == 21

NoValue == <<>>

mainVars == <<env, signals, classifications, evidence_list, narratives, idx, cur,
              outfile, crash, table>>

MainUnused ==
    /\ env = NoValue /\ signals = NoValue /\ classifications = NoValue
    /\ evidence_list = NoValue /\ narratives = NoValue /\ idx = 0
    /\ cur = NoValue /\ outfile = NoValue /\ crash = "" /\ table = NoValue

MsgRateLimit == <<"H", "T", "T", "P", " ", "4", "2", "9">>
MsgTooMany == <<"T", "o", "o", " ", "M", "a", "n", "y", " ", "R", "e", "q", "u", "e", "s", "t", "s">>
MsgBlocked == <<"I", "P", " ", "B", "L", "O", "C", "K", "E", "D">>
MsgTimeout == <<"t", "i", "m", "e", "d", " ", "o", "u", "t">>
MsgConvert == <<"c", "a", "n", "n", "o", "t", " ", "c", "o", "n", "v", "e", "r", "t">>

TrendQuerySet == {<<"a", "i", " ", "r", "e", "v", "i", "e", "w">>, <<"p", "r", " ", "b", "o", "t">>, <<"l", "i", "n", "t">>}

FetchSet ==
    {[kind |-> "data", msg |-> <<>>], [kind |-> "empty", msg |-> <<>>],
     [kind |-> "raise", msg |-> MsgRateLimit], [kind |-> "raise", msg |-> MsgTimeout],
     [kind |-> "raise", msg |-> MsgTooMany], [kind |-> "raise", msg |-> MsgBlocked]}

\* (current, year_ago) pairs: interest 20 falling, 10 rising, 10 flat, 9 rising
SeriesSet == {<<20, 40>>, <<10, 5>>, <<10, 10>>, <<9, 3>>}

ColumnSet ==
    {[kind |-> "series", msg |-> <<>>, current |-> p[1], year_ago |-> p[2]] : p \in SeriesSet}
    \cup {[kind |-> "missing", msg |-> <<>>, current |-> 0, year_ago |-> 0],
          [kind |-> "raise", msg |-> MsgConvert, current |-> 0, year_ago |-> 0]}

TrendsEnvs(n) ==
    [installed : BOOLEAN, ctor_ok : BOOLEAN, fetch : FetchSet, columns : [1..n -> ColumnSet]]

Repo(name, stars, language, description) ==
    [name |-> name, stars |-> stars, language |-> language, description |-> description]

RepoA == Repo("acme/review-bot", 40, "Python", "PR review bot")
RepoB == Repo("acme/lint", 10, "", "")
RepoC == Repo("big/agent", 1250, "Go", "")
RepoD == Repo("tiny/hook", 0, "Rust", "git hook")

GithubQuerySet == {<<"p", "r", "-", "b", "o", "t">>, <<"a", "g", "e", "n", "t">>, <<"l", "i", "n", "t">>}

GithubResponseSet ==
    {[kind |-> "403", total_count |-> 0, items |-> <<>>],
     [kind |-> "error", total_count |-> 0, items |-> <<>>]}
    \cup {[kind |-> "ok", total_count |-> Len(items), items |-> items] :
             items \in {<<>>, <<RepoA>>, <<RepoA, RepoB>>, <<RepoB, RepoD>>, <<RepoC>>}}

QueryReview == <<"g","i","t","h","u","b"," ","p","r"," ","r","e","v","i","e","w">>
QueryPad == <<"P","A","D">>
QueryNone == <<"z","z"," ","q","q">>

ProductQuerySet == {QueryReview, QueryPad, QueryNone}

NameLaunchPad == <<"L","a","u","n","c","h","P","a","d">>
TaglineLaunchPad == <<"A","I"," ","a","g","e","n","t"," ","f","o","r"," ",
                      "G","i","t","H","u","b"," ","P","R"," ","r","e","v","i","e","w","s">>

CorpusLine(kind, title, tagline, votes) ==
    [kind |-> kind, title |-> title, tagline |-> tagline, votes |-> votes]

LineSet ==
    {CorpusLine("malformed", <<>>, <<>>, 0),
     CorpusLine("product", NameLaunchPad, TaglineLaunchPad, 321),
     CorpusLine("product", <<"F","o","o">>, <<"b","a","r">>, 5)}

FallbackSet ==
    {[exists |-> FALSE, lines |-> <<>>]}
    \cup {[exists |-> TRUE, lines |-> ls] : ls \in SeqsOf(LineSet, 0, MaxCorpus)}

RemoteProduct == [name |-> <<"R","e","m","o">>, tagline |-> <<"x">>, votes |-> 9]

ProductResponseSet ==
    {[kind |-> "http_error", products |-> <<>>],
     [kind |-> "ok", products |-> <<>>],
     [kind |-> "ok", products |-> <<RemoteProduct>>]}

NoEvidence == Returned("", "", <<>>)
NoSummary == [summary |-> "", supporting |-> FALSE]

----------------------------------------------------------------------------
(* Unit: compute_confidence on every bounded signal and flag combination.  *)

InitConfidence ==
    /\ pc = "confidence_call"
    /\ arg \in [signal : [score : 0..MaxScore, comments : 0..MaxComments],
                gt : BOOLEAN, ph : BOOLEAN, gh : BOOLEAN]
    /\ ev = NoEvidence
    /\ ret = [confidence |-> "", sources_confirming |-> 0]
    /\ MainUnused

ConfidenceCall ==
    /\ pc = "confidence_call"
    /\ ret' = compute_confidence(arg.signal, arg.gt, arg.ph, arg.gh)
    /\ pc' = "confidence_done"
    /\ UNCHANGED <<arg, ev, mainVars>>

NextConfidence == ConfidenceCall

SpecConfidence == InitConfidence /\ [][NextConfidence]_vars

\* C2: compute_confidence returns the count c = origin strength (score >= 30,
\* or comments >= 20, or score >= 15 and comments >= 10) plus the number of
\* true flags among the three, with the label high for c in {3, 4}, medium
\* for c = 2 and low for c in {0, 1}.
C2_ConfidenceCountAndLabel ==
    pc = "confidence_done" =>
        LET score == arg.signal.score
            comments == arg.signal.comments
            origin == score >= 30 \/ comments >= 20 \/ (score >= 15 /\ comments >= 10)
            c == (IF origin THEN 1 ELSE 0)
                   + Cardinality({f \in {"gt", "ph", "gh"} : arg[f]})
        IN  /\ ret.sources_confirming = c
            /\ c \in {3, 4} => ret.confidence = "high"
            /\ c = 2 => ret.confidence = "medium"
            /\ c \in {0, 1} => ret.confidence = "low"
            /\ c \in 0..4

\* a signal that is strong only through the combined threshold, two flags set
C2_Witness ==
    /\ pc = "confidence_done"
    /\ arg.signal.score = 15 /\ arg.signal.comments = 10
    /\ arg.gt /\ arg.gh /\ ~arg.ph
    /\ ret.sources_confirming = 3 /\ ret.confidence = "high"

----------------------------------------------------------------------------
(* Unit: the search-interest block of main() (execute, then summarize).    *)

InitTrends ==
    /\ pc = "trends_execute"
    /\ \E queries \in DistinctSeqsOf(TrendQuerySet, 0, MaxQueries) :
          arg \in [queries : {queries}, e : TrendsEnvs(Len(queries))]
    /\ ev = NoEvidence
    /\ ret = NoSummary
    /\ MainUnused

\* main(): gt_queries non-empty -> execute_google_trends, else no_queries
TrendsEvidence(gt_queries, e) ==
    IF gt_queries # <<>> THEN execute_google_trends(gt_queries, e)
    ELSE Returned("no_queries", "", <<>>)

TrendsExecute ==
    /\ pc = "trends_execute"
    /\ ev' = TrendsEvidence(arg.queries, arg.e)
    /\ pc' = IF ev'.raised THEN "raised" ELSE "trends_summarize"
    /\ UNCHANGED <<arg, ret, mainVars>>

TrendsSummarize ==
    /\ pc = "trends_summarize"
    /\ ret' = summarize_trends(ev)
    /\ pc' = "trends_done"
    /\ UNCHANGED <<arg, ev, mainVars>>

NextTrends == TrendsExecute \/ TrendsSummarize

SpecTrends == InitTrends /\ [][NextTrends]_vars

----------------------------------------------------------------------------
(* Unit: the code-search block of main().                                  *)

InitGithub ==
    /\ pc = "github_execute"
    /\ \E queries \in DistinctSeqsOf(GithubQuerySet, 0, MaxQueries) :
          arg \in [queries : {queries}, token : BOOLEAN,
                   responses : [1..Len(queries) -> GithubResponseSet]]
    /\ ev = NoEvidence
    /\ ret = NoSummary
    /\ MainUnused

GithubEvidence(gh_queries, token, responses) ==
    IF gh_queries # <<>> THEN execute_github_search(gh_queries, token, responses)
    ELSE Returned("no_queries", "", <<>>)

GithubExecute ==
    /\ pc = "github_execute"
    /\ ev' = GithubEvidence(arg.queries, arg.token, arg.responses)
    /\ pc' = "github_summarize"
    /\ UNCHANGED <<arg, ret, mainVars>>

GithubSummarize ==
    /\ pc = "github_summarize"
    /\ ret' = summarize_github(ev)
    /\ pc' = "github_done"
    /\ UNCHANGED <<arg, ev, mainVars>>

NextGithub == GithubExecute \/ GithubSummarize

SpecGithub == InitGithub /\ [][NextGithub]_vars

----------------------------------------------------------------------------
(* Unit: the product-search block of main().                               *)

InitProductHunt ==
    /\ pc = "producthunt_execute"
    /\ \E queries \in DistinctSeqsOf(ProductQuerySet, 0, MaxQueries) :
          arg \in [queries : {queries}, token : BOOLEAN, fallback : FallbackSet,
                   responses : [1..Len(queries) -> ProductResponseSet]]
    /\ ev = NoEvidence
    /\ ret = NoSummary
    /\ MainUnused

ProductHuntEvidence(ph_queries, token, fallback, responses) ==
    IF ph_queries # <<>>
    THEN execute_producthunt_search(ph_queries, token, fallback, responses)
    ELSE Returned("no_queries", "", <<>>)

ProductHuntExecute ==
    /\ pc = "producthunt_execute"
    /\ ev' = ProductHuntEvidence(arg.queries, arg.token, arg.fallback, arg.responses)
    /\ pc' = IF ev'.raised THEN "raised" ELSE "producthunt_summarize"
    /\ UNCHANGED <<arg, ret, mainVars>>

ProductHuntSummarize ==
    /\ pc = "producthunt_summarize"
    /\ ret' = summarize_producthunt(ev)
    /\ pc' = "producthunt_done"
    /\ UNCHANGED <<arg, ev, mainVars>>

NextProductHunt == ProductHuntExecute \/ ProductHuntSummarize

SpecProductHunt == InitProductHunt /\ [][NextProductHunt]_vars

----------------------------------------------------------------------------
(* Claims about the units.                                                 *)

NoTrendsData == "No Google Trends data available."

ClaimTrendQualifies(r) ==
    (r.interest >= 10 /\ r.yoy_growth > 0) \/ r.interest >= 20

\* C6 (as stated): summarize_trends returns supporting = true if and only if
\* at least one result of the evidence object has (interest >= 10 and
\* yoy_growth > 0) or interest >= 20; an empty result list gives supporting =
\* false with the no-data summary.
C6_SupportingIffAnyResultQualifies ==
    pc = "trends_done" =>
        /\ ret.supporting <=> \E k \in 1..Len(ev.results) : ClaimTrendQualifies(ev.results[k])
        /\ ev.results = <<>> => (~ret.supporting /\ ret.summary = NoTrendsData)

\* C6 (amended): supporting = true if and only if the status is ok and at
\* least one result qualifies; a status other than ok or an empty result list
\* gives supporting = false with the no-data summary, which an ok evidence
\* object with results never gets.
C6_SupportingIffOkAndQualifies ==
    pc = "trends_done" =>
        /\ ret.supporting <=>
              (ev.status = "ok"
                 /\ \E k \in 1..Len(ev.results) : ClaimTrendQualifies(ev.results[k]))
        /\ (ev.status # "ok" \/ ev.results = <<>>)
              => (~ret.supporting /\ ret.summary = NoTrendsData)
        /\ (ev.status = "ok" /\ ev.results # <<>>) => ret.summary # NoTrendsData

\* interest 20 with falling year-over-year growth supports through the second branch
C6_Witness ==
    /\ pc = "trends_done"
    /\ ev.status = "ok"
    /\ \E k \in 1..Len(ev.results) :
          ev.results[k].interest = 20 /\ ev.results[k].yoy_growth < 0
    /\ \A k \in 1..Len(ev.results) : ev.results[k].interest <= 20
    /\ ret.supporting

ClaimUniqueRepos(results) ==
    UNION {{results[k].repos[j] : j \in 1..Len(results[k].repos)} : k \in 1..Len(results)}

\* C5: summarize_github returns supporting = true exactly when the
\* highest-starred unique repository has at least 50 stars or the number of
\* unique repositories (unique by name across all queries) is at least 3.
C5_SupportingIffUniqueRepos ==
    pc = "github_done" =>
        LET unique == ClaimUniqueRepos(ev.results)
            names == {r.name : r \in unique}
        IN  ret.supporting <=> ((\E r \in unique : r.stars >= 50) \/ Cardinality(names) >= 3)

\* C7: summarize_producthunt returns supporting = true if and only if the
\* evidence object holds at least one matched product across its per-query results.
C7_SupportingIffAnyProduct ==
    pc = "producthunt_done" =>
        (ret.supporting <=> \E k \in 1..Len(ev.results) : ev.results[k].products # <<>>)

\* exactly one product, found by the local fallback, supports
C7_Witness ==
    /\ pc = "producthunt_done"
    /\ ev.source = "local_fallback"
    /\ Len(AllProducts(ev.results)) = 1
    /\ ret.supporting

\* C4: no evidence executor lets an exception reach its caller.
C4_ExecutorsNeverRaise == pc # "raised"

RemoteFoundProduct ==
    /\ arg.token
    /\ \E k \in 1..Len(arg.queries) :
          arg.responses[k].kind = "ok" /\ arg.responses[k].products # <<>>

\* C9: execute_producthunt_search returns the remote results only when a
\* credential exists and a remote query returned a product; with no remote
\* product (or no credential) and a local corpus, it returns the local
\* results, tagged local_fallback on the set and on every entry; with neither
\* credential nor corpus it returns skipped with no results.
C9_ProductSearchRouting ==
    (pc \in {"producthunt_summarize", "raised"} /\ arg.queries # <<>>) =>
        /\ (~ev.raised /\ ev.status = "ok" /\ ev.source = "") => RemoteFoundProduct
        /\ (~RemoteFoundProduct /\ arg.fallback.exists) =>
              /\ ~ev.raised /\ ev.status = "ok" /\ ev.source = "local_fallback"
              /\ Len(ev.results) = Len(arg.queries)
              /\ \A k \in 1..Len(ev.results) : ev.results[k].source = "local_fallback"
        /\ (~arg.token /\ ~arg.fallback.exists) =>
              (~ev.raised /\ ev.status = "skipped" /\ ev.results = <<>>)

\* the whitespace-separated tokens of q: the maximal runs q[i..j] free of whitespace
ClaimTokens(q) ==
    {SubSeq(q, w[1], w[2]) :
        w \in {w \in (1..Len(q)) \X (1..Len(q)) :
                 /\ w[1] <= w[2]
                 /\ \A m \in w[1]..w[2] : q[m] # " "
                 /\ (w[1] = 1 \/ q[w[1] - 1] = " ")
                 /\ (w[2] = Len(q) \/ q[w[2] + 1] = " ")}}

ClaimOccursIgnoringCase(token, text) ==
    \E off \in 0..(Len(text) - Len(token)) :
        \A m \in 1..Len(token) : LowerChar(token[m]) = LowerChar(text[off + m])

\* a token of the query occurs in the name or in the tagline that follows it
ClaimMatches(q, p) ==
    \E token \in ClaimTokens(q) :
        ClaimOccursIgnoringCase(token, p.title) \/ ClaimOccursIgnoringCase(token, p.tagline)

\* C10: in the local fallback a corpus product matches a query exactly when
\* a whitespace-separated token of the query occurs, ignoring case, in the
\* product's name followed by its tagline; a query with a match makes the
\* product-search evidence supporting.
C10_LocalFallbackMatching ==
    (pc \in {"producthunt_summarize", "producthunt_done"} /\ ev.source = "local_fallback") =>
        \A k \in 1..Len(ev.results) :
            LET lines == arg.fallback.lines
                hits == {n \in 1..Len(lines) :
                            lines[n].kind = "product" /\ ClaimMatches(arg.queries[k], lines[n])}
                entry == ev.results[k]
            IN  /\ entry.query = arg.queries[k]
                /\ entry.total = Cardinality(hits)
                /\ Cardinality(hits) <= 5 => Len(entry.products) = Cardinality(hits)
                /\ \A j \in 1..Len(entry.products) :
                      \E n \in hits : /\ lines[n].title = entry.products[j].name
                                      /\ lines[n].tagline = entry.products[j].tagline
                /\ (pc = "producthunt_done" /\ hits # {}) => ret.supporting

\* the product LaunchPad is found by the query "github pr review"
C10_Witness ==
    /\ pc = "producthunt_done"
    /\ ev.source = "local_fallback"
    /\ arg.queries = <<QueryReview>>
    /\ arg.fallback.lines = <<CorpusLine("product", NameLaunchPad, TaglineLaunchPad, 321)>>
    /\ ev.results[1].total = 1
    /\ ev.results[1].products[1].name = NameLaunchPad
    /\ ret.supporting

\* every iteration of the code-search loop issues one request and appends one
\* entry, so the entries returned count the requests issued
ClaimGithubRequests == Len(ev.results)

ClaimFirst403 ==
    CHOOSE k \in 1..Len(arg.queries) :
        /\ arg.responses[k].kind = "403"
        /\ \A j \in 1..(k - 1) : arg.responses[j].kind # "403"

\* C11: in execute_github_search, once a query receives HTTP 403 no further
\* request is issued: the results are the entries of the earlier queries,
\* unchanged, followed by one entry for the 403 query marked rate_limited with
\* no repositories; without a credential the executor returns skipped and
\* issues no request.
C11_GithubStopsAt403 ==
    (pc \in {"github_summarize", "github_done"} /\ arg.queries # <<>>) =>
        /\ ~arg.token =>
              (ev.status = "skipped" /\ ev.results = <<>> /\ ClaimGithubRequests = 0)
        /\ (arg.token /\ \E k \in 1..Len(arg.queries) : arg.responses[k].kind = "403") =>
              LET f == ClaimFirst403
              IN  /\ ClaimGithubRequests = f
                  /\ ev.results[f].query = arg.queries[f]
                  /\ ev.results[f].status = "rate_limited"
                  /\ ev.results[f].repos = <<>>
                  /\ \A j \in 1..(f - 1) :
                        /\ ev.results[j].query = arg.queries[j]
                        /\ ev.results[j].status # "rate_limited"
                        /\ arg.responses[j].kind = "ok" =>
                              /\ ev.results[j].repos = arg.responses[j].items
                              /\ ev.results[j].total_count = arg.responses[j].total_count
                        /\ arg.responses[j].kind = "error" =>
                              (ev.results[j].status = "error" /\ ev.results[j].repos = <<>>)
        /\ (arg.token /\ \A k \in 1..Len(arg.queries) : arg.responses[k].kind # "403") =>
              ClaimGithubRequests = Len(arg.queries)

\* the first of two queries receives 403 while the second would have found a
\* repository: one entry comes back
C11_Witness ==
    /\ pc = "github_done"
    /\ arg.token /\ Len(arg.queries) = 2
    /\ arg.responses[1].kind = "403"
    /\ arg.responses[2].kind = "ok" /\ arg.responses[2].items # <<>>
    /\ Len(ev.results) = 1 /\ ev.results[1].status = "rate_limited"

\* the batch of a search-interest call fails: the request itself, or the
\* conversion of a returned column
ClaimTrendsFailed ==
    \/ arg.e.fetch.kind = "raise"
    \/ arg.e.fetch.kind = "data"
         /\ \E k \in 1..Len(arg.queries) : arg.e.columns[k].kind = "raise"

ClaimFailingColumn ==
    CHOOSE k \in 1..Len(arg.queries) :
        /\ arg.e.columns[k].kind = "raise"
        /\ \A j \in 1..(k - 1) : arg.e.columns[j].kind # "raise"

ClaimFailureMessage ==
    IF arg.e.fetch.kind = "raise" THEN arg.e.fetch.msg
    ELSE arg.e.columns[ClaimFailingColumn].msg

\* the number of results gathered before the failure
ClaimGathered ==
    IF arg.e.fetch.kind = "raise" THEN 0 ELSE ClaimFailingColumn - 1

ClaimSaysRateLimit(msg) ==
    \/ ClaimOccursIgnoringCase(<<"4", "2", "9">>, msg)
    \/ ClaimOccursIgnoringCase(<<"t", "o", "o", " ", "m", "a", "n", "y">>, msg)
    \/ ClaimOccursIgnoringCase(<<"b", "l", "o", "c", "k", "e", "d">>, msg)

\* the parts of C12 about a rate-limit failure, a missing dependency and a
\* call without failure
ClaimTrendsCommon ==
    /\ ~arg.e.installed => (ev.status = "skipped" /\ ev.results = <<>>)
    /\ (arg.e.installed /\ ClaimTrendsFailed /\ ClaimSaysRateLimit(ClaimFailureMessage)) =>
          /\ ev.status = "rate_limited"
          /\ Len(ev.results) = ClaimGathered
          /\ \A j \in 1..Len(ev.results) : ev.results[j].query = arg.queries[j]
    /\ (arg.e.installed /\ ~ClaimTrendsFailed) =>
          (ev.status = "ok" /\ Len(ev.results) = Len(arg.queries))

C12_WitnessRateLimited ==
    /\ pc = "trends_done"
    /\ arg.e.installed /\ arg.e.fetch = [kind |-> "raise", msg |-> MsgTooMany]
    /\ ev.status = "rate_limited" /\ ev.results = <<>>

----------------------------------------------------------------------------
(* Classification helpers of main().                                       *)

OPPORTUNITY_TYPES ==
    <<<<"d", "e", "v", "e", "l", "o", "p", "e", "r", "-", "t", "o", "o", "l", "i", "n", "g">>,
      <<"d", "e", "m", "o", "g", "r", "a", "p", "h", "i", "c", "-", "m", "a", "r", "k", "e", "t", "-", "g", "a", "p">>,
      <<"i", "n", "f", "r", "a", "s", "t", "r", "u", "c", "t", "u", "r", "e", "-", "n", "e", "e", "d">>,
      <<"w", "o", "r", "k", "f", "l", "o", "w", "-", "i", "n", "e", "f", "f", "i", "c", "i", "e", "n", "c", "y">>,
      <<"e", "m", "e", "r", "g", "i", "n", "g", "-", "c", "a", "t", "e", "g", "o", "r", "y">>>>

InSeq(x, s) == \E k \in 1..Len(s) : s[k] = x

NonEmpty(v) == v # <<>>

\* a JSON value handed to _coerce_list: [kind, items, text], kind "list", "str" or "none"
coerce_list(value) ==
    IF value.kind = "list"
    THEN SelectSeq([k \in 1..Len(value.items) |-> Strip(value.items[k])], NonEmpty)
    ELSE IF value.kind = "str"
    THEN LET parts == SplitOn(ReplaceChar(value.text, "/", ","), ",")
         IN  SelectSeq([k \in 1..Len(parts) |-> Strip(parts[k])], NonEmpty)
    ELSE <<>>

IsOpportunityType(t) == InSeq(t, OPPORTUNITY_TYPES)

\* _normalize_opportunity_types without the final slice [:2]
normalize_opportunity_types_uncapped(raw_types) ==
    LET types == coerce_list(raw_types)
        cleaned == [k \in 1..Len(types) |-> ReplaceChar(Lower(Strip(types[k])), "_", "-")]
    IN  Dedupe(SelectSeq(cleaned, IsOpportunityType), {})

normalize_opportunity_types(raw_types) ==
    LET types == coerce_list(raw_types)
        cleaned == [k \in 1..Len(types) |-> ReplaceChar(Lower(Strip(types[k])), "_", "-")]
    IN  Take(Dedupe(SelectSeq(cleaned, IsOpportunityType), {}), 2)

\* the loop body of _normalize_queries for one key
NormalizeQueryList(value) ==
    LET vals == coerce_list(value)
        stripped == SelectSeq([k \in 1..Len(vals) |-> Strip(vals[k])], NonEmpty)
    IN  Take(Dedupe(stripped, {}), 5)

\* queries: [kind, google_trends, producthunt, github]; kind "dict" or "missing"
normalize_queries(queries) ==
    [has_keys |-> TRUE,
     google_trends |-> NormalizeQueryList(queries.google_trends),
     producthunt |-> NormalizeQueryList(queries.producthunt),
     github |-> NormalizeQueryList(queries.github)]

Untitled == <<"U", "n", "t", "i", "t", "l", "e", "d", " ", "o", "p", "p", "o", "r", "t", "u", "n", "i", "t", "y">>

\* _fallback_opportunity_title without the [:80] slices
fallback_opportunity_title_uncut(signal) ==
    LET hook == StripQuotes(Strip(signal.one_line_hook))
        title == Strip(signal.title)
    IN  IF hook # <<>> THEN hook ELSE IF title # <<>> THEN title ELSE Untitled

fallback_opportunity_title(signal) ==
    LET hook == StripQuotes(Strip(signal.one_line_hook))
        title == Strip(signal.title)
    IN  IF hook # <<>> THEN Take(hook, 80)
        ELSE IF title # <<>> THEN Take(title, 80) ELSE Untitled

\* classifications[i] = None, read through `classifications[i] or {}`
NoClassification ==
    [present |-> FALSE, opportunity_types |-> <<>>, opportunity_title |-> <<>>,
     queries |-> [has_keys |-> FALSE, google_trends |-> <<>>, producthunt |-> <<>>,
                  github |-> <<>>]]

\* list[i] succeeds: 0 <= i < n, or a negative index that wraps
PyIndexOk(i, n) == (0 - n) <= i /\ i < n

\* the 1-based position list[i] denotes
PyPos(i, n) == IF i >= 0 THEN i + 1 ELSE n + i + 1

\* the two attempts of classify_batch / synthesize_batch; attempts[k].kind is
\* "raise" (the API call fails), "malformed" (no JSON array can be parsed) or
\* "array" (the parsed array, attempts[k].elements)
ai_batch(attempts) ==
    IF attempts[1].kind = "array" THEN attempts[1].elements
    ELSE IF attempts[1].kind = "raise" THEN <<>>
    ELSE IF attempts[2].kind = "array" THEN attempts[2].elements
    ELSE <<>>

classify_batch(attempts) == ai_batch(attempts)

synthesize_batch(attempts) == ai_batch(attempts)

RECURSIVE ApplyClassifications(_, _, _, _)
\* the loop `for r in results` of the classification stage; crashed = TRUE
\* stands for an exception that main() does not catch
ApplyClassifications(results, start_idx, sigs, cls) ==
    IF results = <<>> THEN [crashed |-> FALSE, classifications |-> cls]
    ELSE LET r == Head(results)
             n == Len(sigs)
             signal_idx == IF r.has_index THEN r.signal_index ELSE 0
             actual_idx == start_idx + signal_idx
         IN  IF r.shape # "object" THEN [crashed |-> TRUE, classifications |-> cls]
             ELSE IF ~(actual_idx < n)
             THEN ApplyClassifications(Tail(results), start_idx, sigs, cls)
             ELSE IF r.queries.kind \notin {"dict", "missing"} \/ ~PyIndexOk(actual_idx, n)
             THEN [crashed |-> TRUE, classifications |-> cls]
             ELSE LET title == Strip(r.opportunity_title)
                      pos == PyPos(actual_idx, n)
                      entry == [present |-> TRUE,
                                opportunity_types |->
                                    normalize_opportunity_types(r.opportunity_types),
                                opportunity_title |->
                                    IF title # <<>> THEN title
                                    ELSE fallback_opportunity_title(sigs[pos]),
                                queries |-> normalize_queries(r.queries)]
                  IN  ApplyClassifications(Tail(results), start_idx, sigs,
                                           [cls EXCEPT ![pos] = entry])

\* the key of the sort in load_scored_signals
RankOf(s) == s.relevance_score + s.content_potential

RECURSIVE InsertByRank(_, _)
InsertByRank(sorted, sig) ==
    IF sorted = <<>> THEN <<sig>>
    ELSE IF RankOf(Head(sorted)) >= RankOf(sig)
         THEN <<Head(sorted)>> \o InsertByRank(Tail(sorted), sig)
         ELSE <<sig>> \o sorted

RECURSIVE SortByRank(_)
\* signals.sort(key=relevance_score + content_potential, reverse=True): stable
SortByRank(sigs) ==
    IF sigs = <<>> THEN <<>>
    ELSE InsertByRank(SortByRank(SubSeq(sigs, 1, Len(sigs) - 1)), sigs[Len(sigs)])

load_scored_signals(scored, top_n) == Take(SortByRank(scored), top_n)

\* (len(signals) + batch_size - 1) // batch_size
TotalBatches(n, batch_size) == (n + batch_size - 1) \div batch_size

----------------------------------------------------------------------------
(* Narrative and record assembly of main().                                *)

\* str.title() of a confidence label
TitleOf(confidence) ==
    IF confidence = "high" THEN "High"
    ELSE IF confidence = "medium" THEN "Medium" ELSE "Low"

\* fallback_narrative opening with the opportunity title of the bundle
fallback_narrative_titled(signal, evidence) ==
    "HN signal highlights: " \o Str(evidence.opportunity_title) \o " "
        \o evidence.summary_trends \o " " \o evidence.summary_products
        \o " " \o evidence.summary_github \o " "
        \o "Assessment: " \o ToString(evidence.sources_confirming)
        \o " sources confirming, " \o TitleOf(evidence.confidence)
        \o " confidence opportunity."

\* fallback_narrative with the product summary ahead of the search-interest one
fallback_narrative_products_first(signal, evidence) ==
    LET hook == signal.one_line_hook
        first == IF hook # <<>> THEN "HN signal highlights: " \o Str(hook)
                 ELSE "HN signal shows interest (" \o ToString(signal.score)
                        \o " upvotes, " \o ToString(signal.comments) \o " comments)."
    IN  first \o " " \o evidence.summary_products \o " " \o evidence.summary_trends
              \o " " \o evidence.summary_github \o " "
              \o "Assessment: " \o ToString(evidence.sources_confirming)
              \o " sources confirming, " \o TitleOf(evidence.confidence)
              \o " confidence opportunity."

fallback_narrative(signal, evidence) ==
    LET hook == signal.one_line_hook
        first == IF hook # <<>> THEN "HN signal highlights: " \o Str(hook)
                 ELSE "HN signal shows interest (" \o ToString(signal.score)
                        \o " upvotes, " \o ToString(signal.comments) \o " comments)."
    IN  first \o " " \o evidence.summary_trends \o " " \o evidence.summary_products
              \o " " \o evidence.summary_github \o " "
              \o "Assessment: " \o ToString(evidence.sources_confirming)
              \o " sources confirming, " \o TitleOf(evidence.confidence)
              \o " confidence opportunity."

\* keys of a synthesizer object that main() never reads
NoExtra == [present |-> FALSE, confidence |-> "", sources_confirming |-> 0]

\* narratives[i] = None
NoNarrative == [present |-> FALSE, narrative |-> <<>>, extra |-> NoExtra]

RECURSIVE ApplyNarratives(_, _, _, _)
\* the loop `for r in results` of the synthesis stage
ApplyNarratives(results, start_idx, n, narrs) ==
    IF results = <<>> THEN [crashed |-> FALSE, narratives |-> narrs]
    ELSE LET r == Head(results)
             signal_idx == IF r.has_index THEN r.signal_index ELSE 0
             actual_idx == start_idx + signal_idx
         IN  IF r.shape # "object" THEN [crashed |-> TRUE, narratives |-> narrs]
             ELSE IF ~(actual_idx < n) THEN ApplyNarratives(Tail(results), start_idx, n, narrs)
             ELSE IF ~PyIndexOk(actual_idx, n) THEN [crashed |-> TRUE, narratives |-> narrs]
             ELSE ApplyNarratives(Tail(results), start_idx, n,
                      [narrs EXCEPT ![PyPos(actual_idx, n)] =
                          [present |-> TRUE, narrative |-> r.narrative,
                           extra |-> r.extra]])

\* signal_id of the assembly loop without the test for ":"
SignalIdAlwaysPrefixed(sig) == sig.source \o <<":">> \o sig.id

\* signal_id of the assembly loop: the id itself when it contains ":"
SignalId(sig) ==
    IF Contains(sig.id, <<":">>) THEN sig.id ELSE sig.source \o <<":">> \o sig.id

\* a record builder that lets a synthesizer object carrying confidence and
\* sources_confirming keys override the computed ones
BuildRecordFromNarrative(sig, evid, narr) ==
    LET narrative_text == Strip(narr.narrative)
    IN  [id |-> <<"v", "a", "l", ":">> \o SignalId(sig),
         signal_id |-> SignalId(sig),
         signal_title |-> evid.opportunity_title,
         signal_source |-> sig.source,
         signal_score |-> sig.score,
         signal_comments |-> sig.comments,
         opportunity_type |-> evid.opportunity_type,
         queries |-> evid.queries,
         evidence_google_trends |-> evid.evidence_google_trends,
         evidence_producthunt |-> evid.evidence_producthunt,
         evidence_github |-> evid.evidence_github,
         sources_confirming |-> IF narr.extra.present THEN narr.extra.sources_confirming
                                ELSE evid.sources_confirming,
         confidence |-> IF narr.extra.present THEN narr.extra.confidence
                        ELSE evid.confidence,
         narrative |-> IF narrative_text # <<>> THEN Str(narrative_text)
                       ELSE fallback_narrative(sig, evid),
         one_line_hook |-> sig.one_line_hook]

\* one record of validated_opportunities.jsonl (the fields copied unchanged from
\* the signal -- url, key_insight, relevance scores -- and the two run constants
\* validated_at and model_used are left out)
BuildRecord(sig, evid, narr) ==
    LET narrative_text == Strip(narr.narrative)
    IN  [id |-> <<"v", "a", "l", ":">> \o SignalId(sig),
         signal_id |-> SignalId(sig),
         signal_title |-> evid.opportunity_title,
         signal_source |-> sig.source,
         signal_score |-> sig.score,
         signal_comments |-> sig.comments,
         opportunity_type |-> evid.opportunity_type,
         queries |-> evid.queries,
         evidence_google_trends |-> evid.evidence_google_trends,
         evidence_producthunt |-> evid.evidence_producthunt,
         evidence_github |-> evid.evidence_github,
         sources_confirming |-> evid.sources_confirming,
         confidence |-> evid.confidence,
         narrative |-> IF narrative_text # <<>> THEN Str(narrative_text)
                       ELSE fallback_narrative(sig, evid),
         one_line_hook |-> sig.one_line_hook]

RECURSIVE JoinTypes(_)
\* " / ".join(opp_types)
JoinTypes(types) ==
    IF Len(types) = 1 THEN Str(Head(types))
    ELSE Str(Head(types)) \o " / " \o JoinTypes(Tail(types))

\* an evidence object as main() keeps it: the executor's result with the
\* summarizer's summary and supporting flag added
WithSummary(evidence, s) ==
    [status |-> evidence.status, source |-> evidence.source, results |-> evidence.results,
     summary |-> s.summary, supporting |-> s.supporting]

\* the entry appended to evidence_list for one signal
EvidenceBundle(sig, cls, gt_evidence, gh_evidence, ph_evidence) ==
    LET gt_summary == summarize_trends(gt_evidence)
        gh_summary == summarize_github(gh_evidence)
        ph_summary == summarize_producthunt(ph_evidence)
        conf == compute_confidence(sig, gt_summary.supporting, ph_summary.supporting,
                                   gh_summary.supporting)
    IN  [opportunity_type |-> IF cls.opportunity_types # <<>>
                              THEN JoinTypes(cls.opportunity_types) ELSE "unknown",
         opportunity_title |-> IF cls.opportunity_title # <<>> THEN cls.opportunity_title
                               ELSE fallback_opportunity_title(sig),
         queries |-> cls.queries,
         evidence_google_trends |-> WithSummary(gt_evidence, gt_summary),
         evidence_github |-> WithSummary(gh_evidence, gh_summary),
         evidence_producthunt |-> WithSummary(ph_evidence, ph_summary),
         summary_trends |-> gt_summary.summary,
         summary_products |-> ph_summary.summary,
         summary_github |-> gh_summary.summary,
         confidence |-> conf.confidence,
         sources_confirming |-> conf.sources_confirming,
         supporting_sources |-> [hn |-> hn_strength(sig),
                                 trends |-> gt_summary.supporting,
                                 producthunt |-> ph_summary.supporting,
                                 github |-> gh_summary.supporting]]

----------------------------------------------------------------------------
(* Inputs of a validation run.                                             *)

Signal(id, source, title, hook, score, comments, relevance, potential) ==
    [id |-> id, source |-> source, title |-> title, one_line_hook |-> hook,
     score |-> score, comments |-> comments,
     relevance_score |-> relevance, content_potential |-> potential]

\* score 50 with 5 comments: strong through the score alone
SignalStrong ==
    Signal(<<"1", "0", "1">>, <<"h", "n", "_", "a", "s", "k">>, <<"S", "l", "o", "w", " ", "C", "I">>, <<"C", "I", " ", "i", "s", " ", "s", "l", "o", "w">>, 50, 5, 9, 8)

\* score 14 with 9 comments: not strong; the id already has the composite form
SignalWeak ==
    Signal(<<"h", "n", "_", "s", "h", "o", "w", ":", "7">>, <<"h", "n", "_", "s", "h", "o", "w">>, <<"T", "i", "n", "y">>, <<>>, 14, 9, 6, 6)

SignalSet == {SignalStrong, SignalWeak}

\* signals whose texts need trimming or cutting: a quoted hook between blanks,
\* a hook of 81 characters, a blank hook with a title of 81 characters, and
\* neither hook nor title
EdgeSignalSet ==
    {Signal(<<"2", "0", "1">>, <<"h", "n">>, <<"S", "l", "o", "w", " ", "C", "I">>,
            <<" ", "\"", "C", "I", " ", "i", "s", " ", "s", "l", "o", "w", "\"", " ">>,
            3, 1, 5, 5),
     Signal(<<"2", "0", "2">>, <<"h", "n">>, <<"T">>, [k \in 1..81 |-> "x"], 3, 1, 5, 5),
     Signal(<<"2", "0", "3">>, <<"h", "n">>, [k \in 1..81 |-> "y"], <<" ">>, 3, 1, 5, 5),
     Signal(<<"2", "0", "4">>, <<"h", "n">>, <<" ">>, <<>>, 3, 1, 5, 5)}

RawList(items) == [kind |-> "list", items |-> items, text |-> <<>>]

RawQueries(kind, gt, ph, gh) ==
    [kind |-> kind, google_trends |-> RawList(gt), producthunt |-> RawList(ph),
     github |-> RawList(gh)]

\* two search-interest queries, one product query, one code-search query
QueriesFull ==
    RawQueries("dict", <<<<"c", "i">>, <<"b", "o", "t">>>>, <<QueryReview>>, <<<<"l", "i", "n", "t">>>>)

QueriesMissing == RawQueries("missing", <<>>, <<>>, <<>>)

ClassifyElement(shape, has_index, signal_index, types, title, queries) ==
    [shape |-> shape, has_index |-> has_index, signal_index |-> signal_index,
     opportunity_types |-> RawList(types), opportunity_title |-> title, queries |-> queries]

\* what a parsed classifier array may hold: a scalar, objects that carry an
\* index inside the batch, below it (-1, -4), beyond every signal (7), an
\* object without index, title and queries
ClassifyElementSet ==
    {ClassifyElement("scalar", FALSE, 0, <<>>, <<>>, QueriesMissing),
     ClassifyElement("object", FALSE, 0, <<>>, <<>>, QueriesMissing)}
    \cup {ClassifyElement("object", TRUE, i, <<<<"D", "e", "v", "e", "l", "o", "p", "e", "r", "_", "T", "o", "o", "l", "i", "n", "g">>>>, <<"F", "a", "s", "t", " ", "C", "I">>, QueriesFull) :
             i \in {0, 1, -1, -4, 7}}

SynthElement(shape, has_index, signal_index, narrative) ==
    [shape |-> shape, has_index |-> has_index, signal_index |-> signal_index,
     narrative |-> narrative, extra |-> NoExtra]

\* a narrative whose closing sentence claims four sources and High confidence
NarrativeTextAI ==
    <<"V", "a", "l", "i", "d", "a", "t", "e", "d", ".", " ", "A", "s", "s",
      "e", "s", "s", "m", "e", "n", "t", ":", " ", "4", " ", "s", "o", "u",
      "r", "c", "e", "s", " ", "c", "o", "n", "f", "i", "r", "m", "i", "n",
      "g", ",", " ", "H", "i", "g", "h", " ", "c", "o", "n", "f", "i", "d",
      "e", "n", "c", "e", " ", "o", "p", "p", "o", "r", "t", "u", "n", "i",
      "t", "y", ".">>

SynthElementSet ==
    {SynthElement("scalar", FALSE, 0, <<>>),
     SynthElement("object", FALSE, 0, <<" ">>)}
    \cup {SynthElement("object", TRUE, i, NarrativeTextAI) : i \in {0, 1, -1, -4, 7}}

\* the outcomes one AI call may have, its array holding at most n elements
AttemptSet(elements, n) ==
    {[kind |-> "raise", elements |-> <<>>], [kind |-> "malformed", elements |-> <<>>]}
    \cup {[kind |-> "array", elements |-> a] : a \in SeqsOf(elements, 0, n)}

\* the outcomes of the (at most two) AI calls of one batch: the second call is
\* made only after a malformed first response
Attempts(elements) ==
    {<<a, a>> : a \in {a \in AttemptSet(elements, MaxResp) : a.kind # "malformed"}}
    \cup {<<[kind |-> "malformed", elements |-> <<>>], a>> :
             a \in AttemptSet(elements, MaxRetryResp)}

\* what the search-interest service does during one call of a run: the
\* client cannot be built, the request is refused, or a frame comes back whose
\* last column may fail to convert
RunTrendsCalls(n, installed) ==
    [installed : {installed}, ctor_ok : BOOLEAN,
     fetch : {[kind |-> "data", msg |-> <<>>], [kind |-> "raise", msg |-> MsgRateLimit]},
     columns : {[k \in 1..n |->
                   IF k = n THEN last
                   ELSE [kind |-> "series", msg |-> <<>>, current |-> 20, year_ago |-> 40]] :
                last \in {[kind |-> "series", msg |-> <<>>, current |-> 20, year_ago |-> 40],
                          [kind |-> "raise", msg |-> MsgConvert, current |-> 0,
                           year_ago |-> 0]}}]

RunGithubResponses(n) ==
    [1..n -> {[kind |-> "403", total_count |-> 0, items |-> <<>>],
              [kind |-> "ok", total_count |-> 1, items |-> <<RepoC>>]}]

RunProductResponses(n) ==
    [1..n -> {[kind |-> "http_error", products |-> <<>>],
              [kind |-> "ok", products |-> <<RemoteProduct>>]}]

RunFallbackSet ==
    {[exists |-> FALSE, lines |-> <<>>],
     [exists |-> TRUE, lines |-> <<CorpusLine("product", NameLaunchPad, TaglineLaunchPad, 321)>>],
     [exists |-> TRUE, lines |-> <<CorpusLine("malformed", <<>>, <<>>, 0)>>]}

\* the optional dependency and the two optional tokens of a run: all there,
\* none there, only the code-search token
CredentialSet ==
    {[pytrends |-> TRUE, github_token |-> TRUE, ph_token |-> TRUE],
     [pytrends |-> FALSE, github_token |-> FALSE, ph_token |-> FALSE],
     [pytrends |-> FALSE, github_token |-> TRUE, ph_token |-> FALSE]}

\* the contents of scored_signals.jsonl: up to MaxSignals signals, listed with
\* the lower rank first so that the load has to reorder them (the other order
\* gives the same run from the load on), or one signal with edge-case texts
ScoredSet ==
    {s \in DistinctSeqsOf(SignalSet, 0, MaxSignals) :
        \A j, k \in 1..Len(s) : j < k => RankOf(s[j]) <= RankOf(s[k])}
    \cup {<<sig>> : sig \in EdgeSignalSet}

NoOutput == [written |-> FALSE, records |-> <<>>]

NoCurrent == [gt |-> NoEvidence, gh |-> NoEvidence]

----------------------------------------------------------------------------
(* Unit: _normalize_queries and _normalize_opportunity_types on the raw    *)
(* values of a classifier object.                                          *)

MaxRawEnds == 1
MaxFill == 5
MaxTypes == 3

\* a query, the same query padded with blanks, in capitals, and a blank entry
QueryItemSet == {<<"c", "i">>, <<" ", "c", "i", " ">>, <<"C", "I">>, <<" ">>}

QueryFiller == <<<<"b">>, <<"c">>, <<"d">>, <<"e">>, <<"f">>>>

\* labels of the taxonomy as a classifier may spell them, and one outside it
TypeItemSet ==
    {<<"D", "e", "v", "e", "l", "o", "p", "e", "r", "_", "T", "o", "o", "l", "i", "n", "g">>,
     <<" ", "d", "e", "v", "e", "l", "o", "p", "e", "r", "-", "t", "o", "o", "l", "i", "n", "g", " ">>,
     <<"e", "m", "e", "r", "g", "i", "n", "g", "-", "c", "a", "t", "e", "g", "o", "r", "y">>,
     <<"i", "n", "f", "r", "a", "s", "t", "r", "u", "c", "t", "u", "r", "e", "-", "n", "e", "e", "d">>,
     <<"f", "i", "n", "t", "e", "c", "h">>,
     <<" ">>}

RECURSIVE JoinSep(_, _)
\* the items written as one string, separated by sep
JoinSep(items, sep) ==
    IF items = <<>> THEN <<>>
    ELSE IF Len(items) = 1 THEN Head(items)
    ELSE Head(items) \o <<sep>> \o JoinSep(Tail(items), sep)

\* a raw JSON value holding the items: a list, or a string with separators
RawValues(items) ==
    {RawList(items)}
    \cup {[kind |-> "str", items |-> <<>>, text |-> JoinSep(items, sep)] : sep \in {",", "/"}}

InitNormalize ==
    /\ pc = "normalize_call"
    /\ \/ \E h, t \in SeqsOf(QueryItemSet, 0, MaxRawEnds), n \in 0..MaxFill :
             LET items == h \o Take(QueryFiller, n) \o t
             IN  arg \in [op : {"queries"},
                          key : {"google_trends", "producthunt", "github"},
                          items : {items}, raw : RawValues(items)]
       \/ \E items \in SeqsOf(TypeItemSet, 0, MaxTypes) :
             arg \in [op : {"types"}, key : {""}, items : {items}, raw : RawValues(items)]
    /\ ev = NoEvidence
    /\ ret = NoSummary
    /\ MainUnused

\* queries = _normalize_queries(r.get("queries", {})) with one key present
NormalizeQueriesCall ==
    /\ pc = "normalize_call" /\ arg.op = "queries"
    /\ ret' = normalize_queries(
                  [kind |-> "dict",
                   google_trends |-> IF arg.key = "google_trends" THEN arg.raw
                                     ELSE RawList(<<>>),
                   producthunt |-> IF arg.key = "producthunt" THEN arg.raw ELSE RawList(<<>>),
                   github |-> IF arg.key = "github" THEN arg.raw ELSE RawList(<<>>)])
    /\ pc' = "queries_normalized"
    /\ UNCHANGED <<arg, ev, mainVars>>

\* opp_types = _normalize_opportunity_types(r.get("opportunity_types") or ...)
NormalizeTypesCall ==
    /\ pc = "normalize_call" /\ arg.op = "types"
    /\ ret' = normalize_opportunity_types(arg.raw)
    /\ pc' = "types_normalized"
    /\ UNCHANGED <<arg, ev, mainVars>>

NextNormalize == NormalizeQueriesCall \/ NormalizeTypesCall

SpecNormalize == InitNormalize /\ [][NextNormalize]_vars

\* an entry trimmed and in lower case
ClaimFold(x) == Lower(Strip(x))

\* C13: every per-source query list stored in a classification has at most 5
\* entries, no two of them equal after trimming whitespace and ignoring letter
\* case, and the entries kept are the first occurrences in their original order.
C13_QueriesCappedAndDistinct ==
    pc = "queries_normalized" =>
        \A key \in {"google_trends", "producthunt", "github"} :
            LET kept == ret[key]
                given == IF key = arg.key THEN arg.items ELSE <<>>
            IN  /\ Len(kept) <= 5
                /\ \A i, j \in 1..Len(kept) : i < j => ClaimFold(kept[i]) # ClaimFold(kept[j])
                /\ \E f \in [1..Len(kept) -> 1..Len(given)] :
                      /\ \A i, j \in 1..Len(kept) : i < j => f[i] < f[j]
                      /\ \A i \in 1..Len(kept) :
                            /\ kept[i] = Strip(given[f[i]])
                            /\ \A m \in 1..(f[i] - 1) :
                                  ClaimFold(given[m]) # ClaimFold(kept[i])

\* the taxonomy label an entry spells: trimmed, lower case, "_" read as "-"
ClaimLabel(x) == ReplaceChar(Lower(Strip(x)), "_", "-")

ClaimTaxonomy == {OPPORTUNITY_TYPES[k] : k \in 1..Len(OPPORTUNITY_TYPES)}

\* the positions at which the raw value spells the label t
ClaimSpelledAt(t) == {k \in 1..Len(arg.items) : ClaimLabel(arg.items[k]) = t}

ClaimFirstSeen(t) == CHOOSE k \in ClaimSpelledAt(t) : \A m \in ClaimSpelledAt(t) : k <= m

\* C14: the opportunity types stored for a signal are a duplicate-free list of
\* at most 2 labels of the 5-value taxonomy in first-seen order; a value
\* outside the taxonomy is dropped and no label is stored that the classifier
\* did not give.
C14_TypesFromTaxonomy ==
    pc = "types_normalized" =>
        /\ Len(ret) <= 2
        /\ Cardinality(ClaimTaxonomy) = 5
        /\ \A i \in 1..Len(ret) : ret[i] \in ClaimTaxonomy /\ ClaimSpelledAt(ret[i]) # {}
        /\ \A i, j \in 1..Len(ret) :
              i < j => ClaimFirstSeen(ret[i]) < ClaimFirstSeen(ret[j])
        /\ \A t \in ClaimTaxonomy :
              (ClaimSpelledAt(t) # {} /\ \A i \in 1..Len(ret) : ret[i] # t) =>
                  (Len(ret) = 2 /\ ClaimFirstSeen(ret[2]) < ClaimFirstSeen(t))

\* an unknown value, a label spelled twice and two further labels: the unknown
\* value is dropped and the first two labels are kept
C14_Witness ==
    /\ pc = "types_normalized"
    /\ Len(arg.items) = 3
    /\ ClaimLabel(arg.items[1]) \notin ClaimTaxonomy /\ Strip(arg.items[1]) # <<>>
    /\ ClaimLabel(arg.items[2]) = OPPORTUNITY_TYPES[3]
    /\ ClaimLabel(arg.items[3]) = OPPORTUNITY_TYPES[1]
    /\ ret = <<OPPORTUNITY_TYPES[3], OPPORTUNITY_TYPES[1]>>

\* three different labels are given and the third is cut off
C14_WitnessCapped ==
    /\ pc = "types_normalized"
    /\ Cardinality({t \in ClaimTaxonomy : ClaimSpelledAt(t) # {}}) = 3
    /\ Len(ret) = 2

----------------------------------------------------------------------------
(* main(): one validation run.                                             *)

unitVars == <<arg, ev, ret, table>>

Init ==
    /\ pc = "start"
    /\ \E c \in CredentialSet :
          env \in [api_key : BOOLEAN, anthropic : BOOLEAN, pytrends : {c.pytrends},
                   github_token : {c.github_token}, ph_token : {c.ph_token},
                   fallback : RunFallbackSet, batch_size : {1, 2}, top_n : {1, MaxSignals},
                   scored : ScoredSet]
    /\ Len(env.scored) < 2 => (env.top_n = MaxSignals /\ env.batch_size = 1)
    /\ env.top_n = 1 => env.batch_size = 1
    /\ signals = <<>>
    /\ classifications = <<>>
    /\ evidence_list = <<>>
    /\ narratives = <<>>
    /\ idx = 0
    /\ cur = NoCurrent
    /\ outfile = NoOutput
    /\ crash = ""
    /\ arg = NoValue /\ ev = NoEvidence /\ ret = NoSummary /\ table = NoValue

\* the credential check, the load of the top signals and the client set-up
Start ==
    /\ pc = "start"
    /\ LET loaded == load_scored_signals(env.scored, env.top_n)
       IN  IF ~env.api_key
           THEN pc' = "exit_no_api_key" /\ UNCHANGED <<signals, classifications>>
           ELSE IF loaded = <<>>
           THEN pc' = "exit_no_signals" /\ UNCHANGED <<signals, classifications>>
           ELSE IF ~env.anthropic
           THEN pc' = "exit_no_anthropic" /\ signals' = loaded /\ UNCHANGED classifications
           ELSE /\ pc' = "classify"
                /\ signals' = loaded
                /\ classifications' = [k \in 1..Len(loaded) |-> NoClassification]
    /\ UNCHANGED <<env, evidence_list, narratives, idx, cur, outfile, crash, unitVars>>

\* the classification loop left after its first batch
ClassifyBatchFirstOnly ==
    /\ pc = "classify"
    /\ \E attempts \in Attempts(ClassifyElementSet) :
          LET out == ApplyClassifications(classify_batch(attempts), 0, signals,
                                          classifications)
          IN  IF out.crashed
              THEN /\ pc' = "crashed" /\ crash' = "classifier element"
                   /\ classifications' = out.classifications
                   /\ UNCHANGED idx
              ELSE /\ classifications' = out.classifications
                   /\ pc' = "evidence_trends"
                   /\ idx' = 0
                   /\ UNCHANGED crash
    /\ UNCHANGED <<env, signals, evidence_list, narratives, cur, outfile, unitVars>>

\* one iteration of the classification loop: the batch's AI calls and the
\* loop over their results
ClassifyStep(attempts) ==
    LET start_idx == idx * env.batch_size
        out == ApplyClassifications(classify_batch(attempts), start_idx, signals,
                                    classifications)
        last == idx + 1 = TotalBatches(Len(signals), env.batch_size)
    IN  IF out.crashed
        THEN /\ pc' = "crashed" /\ crash' = "classifier element"
             /\ classifications' = out.classifications
             /\ UNCHANGED idx
        ELSE /\ classifications' = out.classifications
             /\ pc' = IF last THEN "evidence_trends" ELSE "classify"
             /\ idx' = IF last THEN 0 ELSE idx + 1
             /\ UNCHANGED crash

ClassifyBatch ==
    /\ pc = "classify"
    /\ \E attempts \in Attempts(ClassifyElementSet) : ClassifyStep(attempts)
    /\ UNCHANGED <<env, signals, evidence_list, narratives, cur, outfile, unitVars>>

\* the search-interest block for signal idx
EvidenceTrends ==
    /\ pc = "evidence_trends"
    /\ LET gt_queries == classifications[idx + 1].queries.google_trends
       IN  \E e \in RunTrendsCalls(Len(gt_queries), env.pytrends) :
              LET gt_evidence == TrendsEvidence(gt_queries, e)
              IN  IF gt_evidence.raised
                  THEN pc' = "crashed" /\ crash' = "executor raised" /\ UNCHANGED cur
                  ELSE /\ pc' = "evidence_github"
                       /\ cur' = [cur EXCEPT !.gt = gt_evidence]
                       /\ UNCHANGED crash
    /\ UNCHANGED <<env, signals, classifications, evidence_list, narratives, idx, outfile,
                   unitVars>>

\* the code-search block for signal idx
EvidenceGithub ==
    /\ pc = "evidence_github"
    /\ LET gh_queries == classifications[idx + 1].queries.github
       IN  \E responses \in RunGithubResponses(Len(gh_queries)) :
              cur' = [cur EXCEPT !.gh = GithubEvidence(gh_queries, env.github_token,
                                                       responses)]
    /\ pc' = "evidence_producthunt"
    /\ UNCHANGED <<env, signals, classifications, evidence_list, narratives, idx, outfile,
                   crash, unitVars>>

\* the product-search block for signal idx, the confidence aggregation and the
\* append to evidence_list
EvidenceProductHunt ==
    /\ pc = "evidence_producthunt"
    /\ LET sig == signals[idx + 1]
           cls == classifications[idx + 1]
           ph_queries == cls.queries.producthunt
           last == idx + 1 = Len(signals)
       IN  \E responses \in RunProductResponses(Len(ph_queries)) :
              LET ph_evidence == ProductHuntEvidence(ph_queries, env.ph_token,
                                                     env.fallback, responses)
              IN  IF ph_evidence.raised
                  THEN /\ pc' = "crashed" /\ crash' = "executor raised"
                       /\ UNCHANGED <<evidence_list, narratives, idx, cur>>
                  ELSE /\ evidence_list' =
                              Append(evidence_list,
                                     EvidenceBundle(sig, cls, cur.gt, cur.gh, ph_evidence))
                       /\ cur' = NoCurrent
                       /\ pc' = IF last THEN "synthesize" ELSE "evidence_trends"
                       /\ idx' = IF last THEN 0 ELSE idx + 1
                       /\ narratives' = IF last
                                        THEN [k \in 1..Len(signals) |-> NoNarrative]
                                        ELSE narratives
                       /\ UNCHANGED crash
    /\ UNCHANGED <<env, signals, classifications, outfile, unitVars>>

\* one iteration of the synthesis loop
SynthesizeStep(attempts) ==
    LET start_idx == idx * env.batch_size
        out == ApplyNarratives(synthesize_batch(attempts), start_idx, Len(signals),
                               narratives)
        last == idx + 1 = TotalBatches(Len(signals), env.batch_size)
    IN  IF out.crashed
        THEN /\ pc' = "crashed" /\ crash' = "synthesizer element"
             /\ narratives' = out.narratives
             /\ UNCHANGED idx
        ELSE /\ narratives' = out.narratives
             /\ pc' = IF last THEN "assemble" ELSE "synthesize"
             /\ idx' = IF last THEN 0 ELSE idx + 1
             /\ UNCHANGED crash

SynthesizeBatch ==
    /\ pc = "synthesize"
    /\ \E attempts \in Attempts(SynthElementSet) : SynthesizeStep(attempts)
    /\ UNCHANGED <<env, signals, classifications, evidence_list, cur, outfile, unitVars>>

\* the assembly loop writing the record of the first signal only
AssembleFirstOnly ==
    /\ pc = "assemble"
    /\ outfile' = [written |-> TRUE,
                   records |-> <<BuildRecord(signals[1], evidence_list[1], narratives[1])>>]
    /\ pc' = "done"
    /\ UNCHANGED <<env, signals, classifications, evidence_list, narratives, idx, cur,
                   crash, unitVars>>

\* the assembly loop and the write of validated_opportunities.jsonl
Assemble ==
    /\ pc = "assemble"
    /\ outfile' = [written |-> TRUE,
                   records |-> [k \in 1..Len(signals) |->
                                   BuildRecord(signals[k], evidence_list[k], narratives[k])]]
    /\ pc' = "done"
    /\ UNCHANGED <<env, signals, classifications, evidence_list, narratives, idx, cur,
                   crash, unitVars>>

Next ==
    \/ Start
    \/ ClassifyBatch
    \/ EvidenceTrends
    \/ EvidenceGithub
    \/ EvidenceProductHunt
    \/ SynthesizeBatch
    \/ Assemble

Spec == Init /\ [][Next]_vars

----------------------------------------------------------------------------
(* Claims about a validation run.                                          *)

\* origin-signal strength recomputed from a score and a comment count
ClaimOriginStrong(score, comments) ==
    score >= 30 \/ comments >= 20 \/ (score >= 15 /\ comments >= 10)

ClaimCount(flags) == Cardinality({k \in DOMAIN flags : flags[k]})

NarrativeFromAI == "Validated. Assessment: 4 sources confirming, High confidence opportunity."

\* C1: in every record written by a run, sources_confirming equals the origin
\* strength recomputed from the record's signal_score and signal_comments
\* (1 or 0) plus the number of the record's three evidence objects whose
\* supporting flag is true, whether the narrative is the AI's or the fallback.
C1_SourcesConfirmingMatchesEvidence ==
    \A k \in 1..Len(outfile.records) :
        LET r == outfile.records[k]
        IN  r.sources_confirming =
                ClaimCount(<<ClaimOriginStrong(r.signal_score, r.signal_comments),
                             r.evidence_google_trends.supporting,
                             r.evidence_producthunt.supporting,
                             r.evidence_github.supporting>>)

\* a written file with one record carrying the AI's narrative and one carrying
\* the fallback narrative, both with confirming sources
C1_Witness ==
    /\ pc = "done" /\ outfile.written
    /\ \E j, k \in 1..Len(outfile.records) :
          /\ outfile.records[j].narrative = NarrativeFromAI
          /\ outfile.records[j].sources_confirming >= 2
          /\ outfile.records[k].narrative # NarrativeFromAI
          /\ outfile.records[k].sources_confirming >= 1
          /\ outfile.records[k].evidence_github.supporting

\* C3: a run that found at least one scored signal is never ended before the
\* output is written by a missing AI credential or by what an AI call returns.
C3_RunAlwaysReachesOutput ==
    env.scored # <<>> =>
        /\ pc # "exit_no_api_key"
        /\ ~(pc = "crashed" /\ crash \in {"classifier element", "synthesizer element"})

ClaimSources(b) ==
    <<b.evidence_google_trends, b.evidence_producthunt, b.evidence_github>>

\* C8: a source whose status is not ok is never supporting and adds nothing to
\* sources_confirming; a signal with score 50 and 5 comments whose
\* search-interest and product-search sources are skipped and whose code-search
\* source is supporting gets 2 and medium; a signal whose three sources are all
\* skipped gets 0 or 1 and low.
C8_NonOkNeverSupporting ==
    \A k \in 1..Len(evidence_list) :
        LET b == evidence_list[k]
            sig == signals[k]
            src == ClaimSources(b)
            origin == ClaimOriginStrong(sig.score, sig.comments)
        IN  /\ \A i \in 1..3 : src[i].status # "ok" => ~src[i].supporting
            /\ b.sources_confirming =
                   ClaimCount(<<origin>> \o [i \in 1..3 |-> src[i].status = "ok"
                                                            /\ src[i].supporting])
            /\ (/\ sig.score = 50 /\ sig.comments = 5
                 /\ b.evidence_google_trends.status = "skipped"
                 /\ b.evidence_producthunt.status = "skipped"
                 /\ b.evidence_github.supporting)
                => b.sources_confirming = 2 /\ b.confidence = "medium"
            /\ (\A i \in 1..3 : src[i].status = "skipped")
                => b.sources_confirming \in {0, 1} /\ b.confidence = "low"

\* the score-50 signal with two skipped sources and a supporting code search
C8_Witness ==
    \E k \in 1..Len(evidence_list) :
        /\ signals[k].score = 50 /\ signals[k].comments = 5
        /\ evidence_list[k].evidence_google_trends.status = "skipped"
        /\ evidence_list[k].evidence_producthunt.status = "skipped"
        /\ evidence_list[k].evidence_github.status = "ok"
        /\ evidence_list[k].evidence_github.supporting
        /\ evidence_list[k].sources_confirming = 2
        /\ evidence_list[k].confidence = "medium"

\* s without the characters of drop at its two ends
ClaimTrim(s, drop) ==
    IF \A k \in 1..Len(s) : s[k] \in drop THEN <<>>
    ELSE LET keep == {k \in 1..Len(s) : s[k] \notin drop}
             lo == CHOOSE k \in keep : \A m \in keep : k <= m
             hi == CHOOSE k \in keep : \A m \in keep : m <= k
         IN  SubSeq(s, lo, hi)

ClaimCut(s, n) == IF Len(s) <= n THEN s ELSE SubSeq(s, 1, n)

ClaimNoQueries(e) == e.status = "no_queries" /\ e.results = <<>>

\* what C15 says of an unclassified signal apart from its title
ClaimFallbackBundle(b) ==
    /\ b.opportunity_type = "unknown"
    /\ b.queries.google_trends = <<>> /\ b.queries.producthunt = <<>>
    /\ b.queries.github = <<>>
    /\ \A i \in 1..3 : ClaimNoQueries(ClaimSources(b)[i])

\* C15 (as stated): a signal for which the classifier produced no entry gets no
\* opportunity types (type string "unknown"), as title the first 80
\* characters of its hook or, when the hook is empty, of its title, an empty
\* query mapping, and three evidence objects with status no_queries, no
\* executor being invoked.
C15_FallbackTitleIsHookOrTitle ==
    \A k \in 1..Len(evidence_list) :
        ~classifications[k].present =>
            /\ ClaimFallbackBundle(evidence_list[k])
            /\ evidence_list[k].opportunity_title =
                  IF signals[k].one_line_hook # <<>>
                  THEN ClaimCut(signals[k].one_line_hook, 80)
                  ELSE ClaimCut(signals[k].title, 80)

\* the title C15 (amended) gives an unclassified signal
ClaimFallbackTitle(sig) ==
    LET hook == ClaimTrim(ClaimTrim(sig.one_line_hook, {" "}), {"\""})
        title == ClaimTrim(sig.title, {" "})
    IN  IF hook # <<>> THEN ClaimCut(hook, 80)
        ELSE IF title # <<>> THEN ClaimCut(title, 80)
        ELSE <<"U", "n", "t", "i", "t", "l", "e", "d", " ", "o", "p", "p", "o", "r", "t", "u", "n", "i", "t", "y">>

\* C15 (amended): as stated, except for the title: the first 80 characters of
\* the hook trimmed of whitespace and then of surrounding double quotes or,
\* when that is empty, of the trimmed title or, when that is empty too,
\* "Untitled opportunity"; the written record carries the same type string and
\* title.
C15_FallbackClassification ==
    /\ \A k \in 1..Len(evidence_list) :
          ~classifications[k].present =>
              /\ ClaimFallbackBundle(evidence_list[k])
              /\ evidence_list[k].opportunity_title = ClaimFallbackTitle(signals[k])
    /\ \A k \in 1..Len(outfile.records) :
          ~classifications[k].present =>
              /\ outfile.records[k].opportunity_type = "unknown"
              /\ outfile.records[k].signal_title = ClaimFallbackTitle(signals[k])
              /\ \A i \in 1..3 : ClaimNoQueries(ClaimSources(outfile.records[k])[i])

\* a written record of an unclassified signal whose hook of 81 characters was
\* cut to 80
C15_Witness ==
    /\ pc = "done" /\ Len(outfile.records) = 1
    /\ ~classifications[1].present
    /\ Len(signals[1].one_line_hook) = 81
    /\ Len(outfile.records[1].signal_title) = 80
    /\ outfile.records[1].opportunity_type = "unknown"
    /\ outfile.records[1].evidence_github.status = "no_queries"

\* the Assessment sentence for a record's own count and label
ClaimAssessment(r) ==
    "Assessment: " \o ToString(r.sources_confirming) \o " sources confirming, "
        \o (CASE r.confidence = "high" -> "High"
              [] r.confidence = "medium" -> "Medium"
              [] r.confidence = "low" -> "Low")
        \o " confidence opportunity."

\* the deterministic narrative of a record, built from the record's own fields
ClaimFallbackNarrative(r) ==
    (IF r.one_line_hook # <<>> THEN "HN signal highlights: " \o Str(r.one_line_hook)
     ELSE "HN signal shows interest (" \o ToString(r.signal_score) \o " upvotes, "
            \o ToString(r.signal_comments) \o " comments).")
    \o " " \o r.evidence_google_trends.summary
    \o " " \o r.evidence_producthunt.summary
    \o " " \o r.evidence_github.summary
    \o " " \o ClaimAssessment(r)

\* the synthesizer gave signal k no narrative, or a blank one
ClaimNoNarrative(k) ==
    ~narratives[k].present \/ \A m \in 1..Len(narratives[k].narrative) :
                                 narratives[k].narrative[m] = " "

\* C16: every written record has a non-empty narrative; when the synthesizer
\* failed, returned malformed output, omitted the signal or gave an empty
\* narrative, it is the hook sentence (or the score/comments sentence), the
\* search-interest, product and code-repository summaries in that order, and
\* the Assessment sentence with the record's own count and label.
C16_NarrativeNeverEmpty ==
    \A k \in 1..Len(outfile.records) :
        /\ outfile.records[k].narrative # ""
        /\ ClaimNoNarrative(k) =>
              outfile.records[k].narrative = ClaimFallbackNarrative(outfile.records[k])

\* a record of a signal without hook that the synthesizer omitted, with two
\* confirming sources
C16_Witness ==
    /\ pc = "done"
    /\ \E k \in 1..Len(outfile.records) :
          /\ ~narratives[k].present
          /\ signals[k].one_line_hook = <<>>
          /\ outfile.records[k].sources_confirming = 2
          /\ outfile.records[k].narrative = ClaimFallbackNarrative(outfile.records[k])

\* the texts that precede the closing sentence: the synthesizer's own opening,
\* or the opening of the deterministic narrative
ClaimNarrativeOpenings(r) ==
    {"Validated. ",
     (IF r.one_line_hook # <<>> THEN "HN signal highlights: " \o Str(r.one_line_hook)
      ELSE "HN signal shows interest (" \o ToString(r.signal_score) \o " upvotes, "
             \o ToString(r.signal_comments) \o " comments).")
     \o " " \o r.evidence_google_trends.summary
     \o " " \o r.evidence_producthunt.summary
     \o " " \o r.evidence_github.summary \o " "}

\* C17: the narrative of every written record, from the synthesizer or from
\* the fallback, ends with an Assessment sentence that restates the record's
\* own confidence label and source count; a synthesizer narrative that states
\* another label or count is never written.
C17_NarrativeRestatesConfidence ==
    \A k \in 1..Len(outfile.records) :
        \E opening \in ClaimNarrativeOpenings(outfile.records[k]) :
            outfile.records[k].narrative = opening \o ClaimAssessment(outfile.records[k])

ClaimRank(sig) == sig.relevance_score + sig.content_potential

ClaimMin(a, b) == IF a <= b THEN a ELSE b

\* the loaded signals are the top_n scored signals, highest rank first
ClaimTopSignals ==
    /\ Len(signals) = ClaimMin(env.top_n, Len(env.scored))
    /\ \A k \in 1..Len(signals) : \E m \in 1..Len(env.scored) : signals[k] = env.scored[m]
    /\ \A j, k \in 1..Len(signals) :
          j < k => (signals[j] # signals[k] /\ ClaimRank(signals[j]) >= ClaimRank(signals[k]))
    /\ \A m \in 1..Len(env.scored) :
          (\A k \in 1..Len(signals) : signals[k] # env.scored[m]) =>
              \A k \in 1..Len(signals) : ClaimRank(signals[k]) >= ClaimRank(env.scored[m])

\* C18: a run that loaded signals writes exactly one record per loaded signal,
\* in the order of the loaded signals, which are the top-N scored signals in
\* non-increasing order of relevance_score + content_potential, whatever the
\* classifier, the executors and the synthesizer did.
C18_OneRecordPerSignalInOrder ==
    /\ pc \in {"done", "crashed"} => outfile.written
    /\ outfile.written =>
          /\ ClaimTopSignals
          /\ Len(outfile.records) = Len(signals)
          /\ \A k \in 1..Len(signals) :
                /\ outfile.records[k].signal_source = signals[k].source
                /\ outfile.records[k].signal_score = signals[k].score
                /\ outfile.records[k].signal_comments = signals[k].comments
                /\ outfile.records[k].one_line_hook = signals[k].one_line_hook

C19_WitnessStopped ==
    /\ pc = "crashed" /\ crash = "synthesizer element"
    /\ Len(evidence_list) = 2
    /\ outfile = NoOutput

\* the signal_id C20 gives a signal
ClaimSignalId(sig) ==
    IF \E m \in 1..Len(sig.id) : sig.id[m] = ":" THEN sig.id
    ELSE sig.source \o <<":">> \o sig.id

\* C20: every written record has id = "val:" + signal_id, where signal_id is
\* the signal's own id when it already contains ":" and otherwise
\* source + ":" + the signal's native id.
C20_RecordIdFromSignalId ==
    \A k \in 1..Len(outfile.records) :
        /\ outfile.records[k].signal_id = ClaimSignalId(signals[k])
        /\ outfile.records[k].id = <<"v", "a", "l", ":">> \o ClaimSignalId(signals[k])

\* one record whose signal id was composite already and one whose id got the
\* source put in front
C20_Witness ==
    /\ pc = "done" /\ Len(outfile.records) = 2
    /\ outfile.records[1].id =
          <<"v", "a", "l", ":", "h", "n", "_", "a", "s", "k", ":", "1", "0", "1">>
    /\ outfile.records[2].id =
          <<"v", "a", "l", ":", "h", "n", "_", "s", "h", "o", "w", ":", "7">>

----------------------------------------------------------------------------
(* Unit: the per-signal block of main() run again on the same signal and   *)
(* the same executor results.                                              *)

MaxRuns == 2

\* what the classifier may have said about the signal in one run: nothing, or
\* a title and a type; the queries are those that led to the executor results
RerunClassificationSet ==
    {[present |-> TRUE, opportunity_types |-> t, opportunity_title |-> ti,
      queries |-> normalize_queries(QueriesFull)] :
        t \in {<<>>, <<OPPORTUNITY_TYPES[1]>>, <<OPPORTUNITY_TYPES[1], OPPORTUNITY_TYPES[5]>>},
        ti \in {<<>>, <<"F", "a", "s", "t", " ", "C", "I">>}}

\* the results the three executors returned for those queries
RerunEvidenceSet ==
    LET q == normalize_queries(QueriesFull)
    IN  [gt : {x \in {TrendsEvidence(q.google_trends, e) :
                        e \in RunTrendsCalls(Len(q.google_trends), TRUE)} : ~x.raised},
         gh : {GithubEvidence(q.github, TRUE, r) : r \in RunGithubResponses(Len(q.github))},
         ph : {x \in {ProductHuntEvidence(q.producthunt, tok, f, r) :
                        tok \in BOOLEAN, f \in RunFallbackSet,
                        r \in RunProductResponses(Len(q.producthunt))} : ~x.raised}]

InitRerun ==
    /\ pc = "rerun"
    /\ \E sig \in SignalSet \cup EdgeSignalSet, e \in RerunEvidenceSet :
          arg = [signal |-> sig, gt |-> e.gt, gh |-> e.gh, ph |-> e.ph]
    /\ ev = NoEvidence
    /\ ret = <<>>
    /\ MainUnused

\* one run over the signal: the evidence bundle of lines 772-828 and the record
\* of lines 867-904 when the synthesizer gave no narrative for the signal
ValidateRun ==
    /\ pc = "rerun"
    /\ \E cls \in RerunClassificationSet :
          ret' = Append(ret, BuildRecord(arg.signal,
                                         EvidenceBundle(arg.signal, cls, arg.gt, arg.gh,
                                                        arg.ph),
                                         NoNarrative))
    /\ pc' = IF Len(ret') = MaxRuns THEN "rerun_done" ELSE "rerun"
    /\ UNCHANGED <<arg, ev, mainVars>>

NextRerun == ValidateRun

SpecRerun == InitRerun /\ [][NextRerun]_vars

\* the fields that no AI answer feeds
ClaimNonAIFields(r) ==
    <<r.sources_confirming, r.confidence,
      r.evidence_google_trends.summary, r.evidence_google_trends.supporting,
      r.evidence_producthunt.summary, r.evidence_producthunt.supporting,
      r.evidence_github.summary, r.evidence_github.supporting,
      r.narrative>>

\* C21: runs over the same signal in which the executors return the same
\* results give the same sources_confirming, confidence, per-source summaries
\* and supporting flags and the same fallback narrative, whatever the
\* classifier said in each run
C21_RerunSameNonAIFields ==
    \A j, k \in 1..Len(ret) : ClaimNonAIFields(ret[j]) = ClaimNonAIFields(ret[k])

\* two runs were made, the classifier gave a title in one only, and a source supports
C21_Witness ==
    /\ pc = "rerun_done"
    /\ ret[1].signal_title # ret[2].signal_title
    /\ ret[1].opportunity_type # ret[2].opportunity_type
    /\ ret[1].evidence_github.supporting
    /\ ret[2].sources_confirming >= 2

----------------------------------------------------------------------------
(* supabase_loader.py: the load of validated_opportunities.jsonl.          *)

UpsertBatchSize == 100

\* normalize_validated_opportunity: the fields are copied; a queries object is
\* serialised, a queries string is passed through
normalize_validated_opportunity(record) ==
    [id |-> record.id, confidence |-> record.confidence,
     queries |-> IF record.queries.kind = "dict"
                 THEN [kind |-> "str", text |-> "json:" \o record.queries.text]
                 ELSE record.queries,
     validated_at |-> record.validated_at]

\* seen[n["id"]] = n on a dict kept as a sequence of its values in insertion
\* order; also what the store does with one row on conflict of id
PutById(rows, n) ==
    IF \E k \in 1..Len(rows) : rows[k].id = n.id
    THEN [k \in 1..Len(rows) |-> IF rows[k].id = n.id THEN n ELSE rows[k]]
    ELSE Append(rows, n)

\* the de-duplication loop keeping the first record of each id
RECURSIVE DedupeByIdKeepFirst(_, _)
DedupeByIdKeepFirst(records, seen) ==
    IF records = <<>> THEN seen
    ELSE LET n == normalize_validated_opportunity(Head(records))
         IN  DedupeByIdKeepFirst(Tail(records),
                 IF \E k \in 1..Len(seen) : seen[k].id = n.id THEN seen
                 ELSE Append(seen, n))

\* the de-duplication loop of upsert_records: list(seen.values())
RECURSIVE DedupeById(_, _)
DedupeById(records, seen) ==
    IF records = <<>> THEN seen
    ELSE DedupeById(Tail(records),
                    PutById(seen, normalize_validated_opportunity(Head(records))))

\* normalized[i:i + batch_size] for i in range(0, len(normalized), batch_size)
RECURSIVE Chunks(_, _)
Chunks(s, n) ==
    IF s = <<>> THEN <<>>
    ELSE <<Take(s, n)>> \o Chunks(SubSeq(s, n + 1, Len(s)), n)

\* the store's upsert of one batch with on_conflict = "id"
RECURSIVE StoreUpsert(_, _)
StoreUpsert(rows, batch) ==
    IF batch = <<>> THEN rows ELSE StoreUpsert(PutById(rows, Head(batch)), Tail(batch))

\* the batch loop of upsert_records; accepted[k] tells whether the store takes
\* batch k or the call raises (the error is printed and the loop goes on)
RECURSIVE UpsertBatches(_, _, _, _, _)
UpsertBatches(rows, batches, accepted, k, upserted) ==
    IF k > Len(batches) THEN [table |-> rows, upserted |-> upserted]
    ELSE IF accepted[k]
    THEN UpsertBatches(StoreUpsert(rows, batches[k]), batches, accepted, k + 1,
                       upserted + Len(batches[k]))
    ELSE UpsertBatches(rows, batches, accepted, k + 1, upserted)

\* upsert_records(client, records, "validated_opportunities",
\* normalize_validated_opportunity) on the table `rows`
upsert_records(rows, records, accepted) ==
    IF records = <<>> THEN [table |-> rows, upserted |-> 0, sent |-> <<>>]
    ELSE LET batches == Chunks(DedupeById(records, <<>>), UpsertBatchSize)
             out == UpsertBatches(rows, batches, accepted, 1, 0)
         IN  [table |-> out.table, upserted |-> out.upserted, sent |-> batches]

MaxLoads == 2
MaxFileRecords == 2

\* the records one validation run may write: two ids, two verdicts, stamped
\* with the time of the run
FileRecordSet(now) ==
    {[id |-> id, confidence |-> c, queries |-> [kind |-> "dict", text |-> "{}"],
      validated_at |-> now] :
        id \in {"val:hn_ask:101", "val:hn_show:7"}, c \in {"low", "high"}}
    \cup {[id |-> "val:hn_show:7", confidence |-> "medium",
           queries |-> [kind |-> "str", text |-> "{}"], validated_at |-> now]}

InitLoad ==
    /\ pc = "validate"
    /\ outfile = NoOutput
    /\ table = <<>>
    /\ idx = 0
    /\ arg = NoValue /\ ev = NoEvidence /\ ret = NoSummary
    /\ env = NoValue /\ signals = NoValue /\ classifications = NoValue
    /\ evidence_list = NoValue /\ narratives = NoValue /\ cur = NoValue /\ crash = ""

\* a validation run as the loader sees it: validated_opportunities.jsonl is
\* replaced by the records of the run (validate_opportunities.py:906-909)
ValidationRun ==
    /\ pc = "validate"
    /\ idx < MaxLoads
    /\ idx' = idx + 1
    /\ \E records \in SeqsOf(FileRecordSet(idx'), 0, MaxFileRecords) :
          outfile' = [written |-> TRUE, records |-> records]
    /\ pc' = "load"
    /\ UNCHANGED <<arg, ev, ret, table, env, signals, classifications, evidence_list,
                   narratives, cur, crash>>

\* step [4] of the loader's main(): the file is read and upserted; arg keeps
\* what was sent and which batches the store took
LoadValidated ==
    /\ pc = "load"
    /\ \E accepted \in [1..Len(Chunks(DedupeById(outfile.records, <<>>),
                                       UpsertBatchSize)) -> BOOLEAN] :
          LET out == upsert_records(table, outfile.records, accepted)
          IN  /\ table' = out.table
              /\ arg' = [sent |-> out.sent, accepted |-> accepted]
              /\ ret' = out.upserted
    /\ pc' = "validate"
    /\ UNCHANGED <<ev, outfile, idx, env, signals, classifications, evidence_list,
                   narratives, cur, crash>>

NextLoad == ValidationRun \/ LoadValidated

SpecLoad == InitLoad /\ [][NextLoad]_vars

\* the ids of a sequence of records or rows
ClaimIds(rs) == {rs[k].id : k \in 1..Len(rs)}

\* the last record of the file that carries the id
ClaimLastWithId(records, id) ==
    records[CHOOSE k \in 1..Len(records) :
                /\ records[k].id = id
                /\ \A j \in (k + 1)..Len(records) : records[j].id # id]

\* the row is the stored form of the record
ClaimRowOf(row, record) ==
    /\ row.id = record.id
    /\ row.confidence = record.confidence
    /\ row.validated_at = record.validated_at

\* no two rows of the collection share an id
ClaimOnePerId(rows) == \A j, k \in 1..Len(rows) : rows[j].id = rows[k].id => j = k

\* after the step, every id of the file has the row of its last record
ClaimFileStored ==
    \A id \in ClaimIds(outfile.records) :
        \E k \in 1..Len(table') :
            ClaimRowOf(table'[k], ClaimLastWithId(outfile.records, id))

\* the step leaves the rows of ids that the file does not carry as they were
ClaimOthersKept ==
    \A k \in 1..Len(table) :
        table[k].id \notin ClaimIds(outfile.records) =>
            \E j \in 1..Len(table') : table'[j] = table[k]

\* C22 as stated: after every load the collection holds one row per id, and
\* the row of every id of the loaded file is that of its last record in the
\* file, whatever the store answered
C22_LoadStoresLatestRun ==
    /\ [](pc \in {"validate", "load"} => ClaimOnePerId(table))
    /\ [][pc = "load" => (ClaimFileStored /\ ClaimOthersKept)]_vars

\* C22: the collection holds one row per id; a load sends every id of the
\* file once, as the last record of the file with that id; when the store
\* takes the batch, those rows replace the earlier rows of their ids and the
\* other rows stay; when the store refuses it, the collection is unchanged
C22_UpsertKeepsLastPerId ==
    /\ [](pc \in {"validate", "load"} => ClaimOnePerId(table))
    /\ [][pc = "load" =>
            /\ \A b \in 1..Len(arg'.sent) : ClaimOnePerId(arg'.sent[b])
            /\ \A id \in ClaimIds(outfile.records) :
                  \E b \in 1..Len(arg'.sent) : \E k \in 1..Len(arg'.sent[b]) :
                      ClaimRowOf(arg'.sent[b][k], ClaimLastWithId(outfile.records, id))
            /\ (\A b \in 1..Len(arg'.sent) : arg'.accepted[b]) =>
                  (ClaimFileStored /\ ClaimOthersKept
                     /\ ClaimIds(table') = ClaimIds(table) \cup ClaimIds(outfile.records))
            /\ (\A b \in 1..Len(arg'.sent) : ~arg'.accepted[b]) => table' = table]_vars

\* the second load has overwritten the row that the first load created (the
\* first row carries the stamp of run 2, the second row that of run 1), from a
\* file that holds the id twice with different verdicts
C22_Witness ==
    /\ pc = "validate" /\ idx = 2
    /\ Len(table) = 2
    /\ table[1].validated_at = 2 /\ table[2].validated_at = 1
    /\ Len(outfile.records) = 2
    /\ outfile.records[1].id = outfile.records[2].id
    /\ outfile.records[1].confidence # outfile.records[2].confidence
    /\ table[1].confidence = outfile.records[2].confidence

----------------------------------------------------------------------------
(* Unit: the response handling of classify_batch / synthesize_batch.       *)

\* the index of the first character at or after k that is not whitespace
RECURSIVE SkipWs(_, _)
SkipWs(s, k) == IF k <= Len(s) /\ IsSpace(s[k]) THEN SkipWs(s, k + 1) ELSE k

JsonFail == [ok |-> FALSE, next |-> 0, text |-> <<>>, items |-> <<>>]

RECURSIVE JoinComma(_)
JoinComma(items) ==
    IF items = <<>> THEN <<>>
    ELSE IF Len(items) = 1 THEN Head(items)
    ELSE Head(items) \o <<",">> \o JoinComma(Tail(items))

\* the JSON decoder on the values the model writes: the number 1 and arrays;
\* a value is kept as its text without whitespace, an array also as the
\* sequence of its elements
RECURSIVE JsonValue(_, _)
RECURSIVE JsonItems(_, _, _)
JsonValue(s, k) ==
    LET j == SkipWs(s, k)
    IN  IF j > Len(s) THEN JsonFail
        ELSE IF s[j] = "1"
        THEN [ok |-> TRUE, next |-> j + 1, text |-> <<"1">>, items |-> <<>>]
        ELSE IF s[j] = "["
        THEN LET j2 == SkipWs(s, j + 1)
             IN  IF j2 <= Len(s) /\ s[j2] = "]"
                 THEN [ok |-> TRUE, next |-> j2 + 1, text |-> <<"[", "]">>, items |-> <<>>]
                 ELSE JsonItems(s, j + 1, <<>>)
        ELSE JsonFail

JsonItems(s, k, items) ==
    LET v == JsonValue(s, k)
        j == SkipWs(s, v.next)
        all == Append(items, v.text)
    IN  IF ~v.ok \/ j > Len(s) THEN JsonFail
        ELSE IF s[j] = "]"
        THEN [ok |-> TRUE, next |-> j + 1, text |-> <<"[">> \o JoinComma(all) \o <<"]">>,
              items |-> all]
        ELSE IF s[j] = "," THEN JsonItems(s, j + 1, all)
        ELSE JsonFail

\* json.loads(s): one value, then nothing but whitespace (else "Extra data")
json_loads(s) ==
    LET v == JsonValue(s, 1)
    IN  IF v.ok /\ SkipWs(s, v.next) > Len(s) THEN v ELSE JsonFail

\* str.find / str.rfind of one character: 0-based index, or -1
Find(s, c) ==
    IF \E k \in 1..Len(s) : s[k] = c
    THEN (CHOOSE k \in 1..Len(s) : s[k] = c /\ \A j \in 1..(k - 1) : s[j] # c) - 1
    ELSE -1

RFind(s, c) ==
    IF \E k \in 1..Len(s) : s[k] = c
    THEN (CHOOSE k \in 1..Len(s) : s[k] = c /\ \A j \in (k + 1)..Len(s) : s[j] # c) - 1
    ELSE -1

\* one pass of the loop `for attempt in range(2)` on the client's response:
\* "array" when a list is returned, "malformed" when the pass ends in the
\* retry branch (no bracket span, or JSONDecodeError), "raise" for any other error
ResponseOutcome(response) ==
    IF response.kind = "raise" THEN [kind |-> "raise", elements |-> <<>>]
    ELSE LET text == Strip(response.text)
             start == Find(text, "[")
             end == RFind(text, "]") + 1
             parsed == IF text # <<>> /\ text[1] = "[" THEN json_loads(text)
                       ELSE IF start >= 0 /\ end > start
                       THEN json_loads(SubSeq(text, start + 1, end))
                       ELSE JsonFail
         IN  IF parsed.ok THEN [kind |-> "array", elements |-> parsed.items]
             ELSE [kind |-> "malformed", elements |-> <<>>]

\* prose and arrays a response is put together from
ProseBeforeSet == {<<>>, <<"H", "e", "r", "e", ":", " ">>, <<"S", "e", "e", " ", "[", "a", "]", " ">>}
ProseAfterSet == {<<>>, <<" ", "D", "o", "n", "e", ".">>, <<" ", "(", "[", "a", "]", ")">>}
ArrayTextSet ==
    {<<"[", "]">>, <<"[", "1", "]">>, <<"[", "1", ",", " ", "[", "1", "]", "]">>,
     <<"[", "1", ",">>}

ResponseSet ==
    {[kind |-> "raise", text |-> <<>>], [kind |-> "text", text |-> <<"N", "o", ".">>]}
    \cup {[kind |-> "text", text |-> b \o a \o c] :
             b \in ProseBeforeSet, a \in ArrayTextSet, c \in ProseAfterSet}

RetryResponseSet ==
    {[kind |-> "raise", text |-> <<>>], [kind |-> "text", text |-> <<"N", "o", ".">>],
     [kind |-> "text", text |-> <<"[", "1", "]">>]}

InitResponse ==
    /\ pc = "batch_call"
    /\ arg \in [first : ResponseSet, second : RetryResponseSet]
    /\ ev = NoEvidence
    /\ ret = <<>>
    /\ MainUnused

\* classify_batch (and, with the same code, synthesize_batch) on the responses
\* the client gives to the first and to the second request
BatchCall ==
    /\ pc = "batch_call"
    /\ ret' = classify_batch(<<ResponseOutcome(arg.first), ResponseOutcome(arg.second)>>)
    /\ pc' = "batch_returned"
    /\ UNCHANGED <<arg, ev, mainVars>>

NextResponse == BatchCall

SpecResponse == InitResponse /\ [][NextResponse]_vars

\* the end of the bracket span that opens at position k: the position of the
\* bracket that closes it, or 0 when it is never closed
RECURSIVE ClaimSpanEnd(_, _, _)
ClaimSpanEnd(s, k, depth) ==
    IF k > Len(s) THEN 0
    ELSE IF s[k] = "[" THEN ClaimSpanEnd(s, k + 1, depth + 1)
    ELSE IF s[k] = "]"
    THEN IF depth = 1 THEN k ELSE ClaimSpanEnd(s, k + 1, depth - 1)
    ELSE ClaimSpanEnd(s, k + 1, depth)

\* the first balanced [...] span of the text, <<>> when there is none
ClaimFirstBalanced(s) ==
    LET start == Find(s, "[") + 1
        end == IF start = 0 THEN 0 ELSE ClaimSpanEnd(s, start, 0)
    IN  IF end = 0 THEN <<>> ELSE SubSeq(s, start, end)

\* C23: when the first balanced [...] span of the response is a valid JSON
\* array, whatever prose precedes or follows it, the batch call returns the
\* elements of that array
C23_FirstBalancedSpanParsed ==
    (pc = "batch_returned" /\ arg.first.kind = "text") =>
        LET span == json_loads(ClaimFirstBalanced(arg.first.text))
        IN  span.ok => ret = span.items

----------------------------------------------------------------------------
(* supabase_loader.py: the normalizers of the opportunities table.         *)

\* record.get(key) of an optional text / an optional list: absent is None
NoText == [present |-> FALSE, text |-> ""]
NoList == [present |-> FALSE, kind |-> "none", items |-> <<>>]

SourceIn(source, names) == Str(source) \in names

\* normalize_hn_record: id, source, github_url, github_data
normalize_hn_record(record) ==
    [id |-> record.source \o <<":">> \o record.id,
     source |-> record.source,
     source_id |-> record.id,
     github_url |-> record.github_url,
     github_data |-> record.github_repos]

\* normalize_producthunt_record
normalize_producthunt_record(record) ==
    [id |-> <<"p", "r", "o", "d", "u", "c", "t", "h", "u", "n", "t", ":">> \o record.id,
     source |-> <<"p", "r", "o", "d", "u", "c", "t", "h", "u", "n", "t">>,
     source_id |-> record.id,
     github_url |-> record.github_url,
     github_data |-> record.github_repos]

\* normalize_github_trending: github_url is the record's url or the address
\* built from its id, github_data a JSON text of the repository's counters
normalize_github_trending(record) ==
    [id |-> <<"g", "i", "t", "h", "u", "b", "_", "t", "r", "e", "n", "d", "i", "n", "g", ":">>
              \o record.id,
     source |-> <<"g", "i", "t", "h", "u", "b", "_", "t", "r", "e", "n", "d", "i", "n", "g">>,
     source_id |-> record.id,
     github_url |-> IF record.url.present THEN record.url
                    ELSE [present |-> TRUE, text |-> "https://github.com/" \o Str(record.id)],
     github_data |-> [present |-> TRUE, kind |-> "json", items |-> <<>>]]

\* the else branch shared by normalize_record and normalize_scored_signal
NormalizeOther(record, composite_id) ==
    [id |-> composite_id,
     source |-> record.source,
     source_id |-> record.id,
     github_url |-> record.github_url,
     github_data |-> record.github_repos]

normalize_record(record) ==
    IF SourceIn(record.source, {"hn_ask", "hn_show"}) THEN normalize_hn_record(record)
    ELSE IF SourceIn(record.source, {"producthunt"}) THEN normalize_producthunt_record(record)
    ELSE IF SourceIn(record.source, {"github_trending"})
    THEN normalize_github_trending(record)
    ELSE NormalizeOther(record, record.source \o <<":">> \o record.id)

\* normalize_scored_signal: composite_id is used by the else branch only (the
\* scoring columns added afterwards are left out)
normalize_scored_signal(record) ==
    LET composite_id == IF Contains(record.id, <<":">>) THEN record.id
                        ELSE record.source \o <<":">> \o record.id
    IN  IF SourceIn(record.source, {"hn_ask", "hn_show"}) THEN normalize_hn_record(record)
        ELSE IF SourceIn(record.source, {"producthunt"})
        THEN normalize_producthunt_record(record)
        ELSE IF SourceIn(record.source, {"github_trending"})
        THEN normalize_github_trending(record)
        ELSE NormalizeOther(record, composite_id)

MatchedRepo(name) == [name |-> name, url |-> "https://github.com/" \o name]

RepoListSet ==
    {NoList, [present |-> TRUE, kind |-> "list", items |-> <<>>],
     [present |-> TRUE, kind |-> "list", items |-> <<MatchedRepo("org/repo")>>],
     [present |-> TRUE, kind |-> "list",
      items |-> <<MatchedRepo("tokio-rs/tokio"), MatchedRepo("org/repo")>>]}

\* raw source records: every source branch, with and without matched
\* repositories, in the github_repos field or in the legacy github field
RawRecordSet ==
    [id : {<<"a", "b", "c">>},
     source : {<<"h", "n", "_", "s", "h", "o", "w">>, <<"h", "n", "_", "a", "s", "k">>,
               <<"p", "r", "o", "d", "u", "c", "t", "h", "u", "n", "t">>,
               <<"g", "i", "t", "h", "u", "b", "_", "t", "r", "e", "n", "d", "i", "n", "g">>,
               <<"r", "s", "s">>},
     url : {NoText, [present |-> TRUE, text |-> "https://example.org/abc"]},
     github_url : {NoText, [present |-> TRUE, text |-> "https://github.com/org/repo"]},
     github_repos : RepoListSet,
     github : {NoList, [present |-> TRUE, kind |-> "list",
                        items |-> <<MatchedRepo("org/repo")>>]}]

InitRecord ==
    /\ pc = "normalize_record"
    /\ arg \in RawRecordSet
    /\ ev = NoEvidence
    /\ ret = NoValue
    /\ MainUnused

NormalizeRecordCall ==
    /\ pc = "normalize_record"
    /\ ret' = normalize_record(arg)
    /\ pc' = "record_normalized"
    /\ UNCHANGED <<arg, ev, mainVars>>

NextRecord == NormalizeRecordCall

SpecRecord == InitRecord /\ [][NextRecord]_vars

\* the field that carries the record's matched repositories
ClaimMatchedRepos(record) ==
    IF record.github_repos.present THEN record.github_repos ELSE record.github

\* C24: github_data of the normalized record is the record's list of matched
\* repositories, read from the legacy github field when github_repos is
\* missing, and github_url is the url of the first matched repository
C24_MatchedReposKept ==
    pc = "record_normalized" =>
        LET repos == ClaimMatchedRepos(arg)
        IN  repos.present =>
               /\ ret.github_data = repos
               /\ repos.items # <<>> =>
                     ret.github_url = [present |-> TRUE, text |-> repos.items[1].url]

----------------------------------------------------------------------------
(* match_github.py: extract_keywords.                                      *)

MaxTitleWords == 9
MaxKeywords == 6
MinKeywordLength == 3

\* STOP_WORDS, restricted to the words that the titles of the model contain
STOP_WORDS == {"and", "ask", "for", "hn", "show"}

Digits == {"0", "1", "2", "3", "4", "5", "6", "7", "8", "9"}

IsLetter(c) == \E k \in 1..26 : LowerChars[k] = c \/ UpperChars[k] = c

\* \w of the regular expressions
IsWordChar(c) == IsLetter(c) \/ c \in Digits \/ c = "_"

StartsWithAt(s, k, p) == k + Len(p) - 1 <= Len(s) /\ SubSeq(s, k, k + Len(p) - 1) = p

\* re.sub(r'^(Ask|Show)\s+HN:\s*', '', title, flags=re.IGNORECASE)
StripHnPrefix(title) ==
    LET low == Lower(title)
        k0 == IF StartsWithAt(low, 1, <<"a", "s", "k">>) THEN 3
              ELSE IF StartsWithAt(low, 1, <<"s", "h", "o", "w">>) THEN 4 ELSE 0
        j == SkipWs(low, k0 + 1)
    IN  IF k0 > 0 /\ j > k0 + 1 /\ StartsWithAt(low, j, <<"h", "n", ":">>)
        THEN SubSeq(title, SkipWs(title, j + 3), Len(title))
        ELSE title

\* " ".join(title.split(" - ", 1)) when " - " occurs in the title
JoinNameTagline(title) ==
    IF Contains(title, <<" ", "-", " ">>)
    THEN LET i == CHOOSE k \in 1..Len(title) :
                     /\ StartsWithAt(title, k, <<" ", "-", " ">>)
                     /\ \A j \in 1..(k - 1) : ~StartsWithAt(title, j, <<" ", "-", " ">>)
         IN  SubSeq(title, 1, i - 1) \o <<" ">> \o SubSeq(title, i + 3, Len(title))
    ELSE title

RECURSIVE WordRuns(_, _, _)
\* the maximal runs of \w characters, in order
WordRuns(s, k, run) ==
    IF k > Len(s)
    THEN IF run = <<>> THEN <<>> ELSE <<run>>
    ELSE IF ~IsWordChar(s[k])
         THEN (IF run = <<>> THEN <<>> ELSE <<run>>) \o WordRuns(s, k + 1, <<>>)
         ELSE WordRuns(s, k + 1, Append(run, s[k]))

\* a run that \b[a-zA-Z][a-zA-Z0-9]*\b matches: it starts with a letter and
\* holds no underscore
IsRegexWord(run) == IsLetter(run[1]) /\ \A k \in 1..Len(run) : run[k] # "_"

\* re.findall(r'\b[a-zA-Z][a-zA-Z0-9]*\b', s)
FindAllWords(s) == SelectSeq(WordRuns(s, 1, <<>>), IsRegexWord)

IsKeyword(w) == Str(w) \notin STOP_WORDS /\ Len(w) >= MinKeywordLength

\* extract_keywords without the final slice [:6]
extract_keywords_unlimited(title) ==
    Dedupe(SelectSeq(FindAllWords(Lower(JoinNameTagline(StripHnPrefix(title)))),
                     IsKeyword), {})

extract_keywords(title) ==
    Take(Dedupe(SelectSeq(FindAllWords(Lower(JoinNameTagline(StripHnPrefix(title)))),
                          IsKeyword), {}),
         MaxKeywords)

\* the words titles are made of, and the words one of which may close a title
TitlePool ==
    <<<<"R", "u", "s", "t">>,
      <<"K", "a", "f", "k", "a">>,
      <<"f", "o", "r">>,
      <<"r", "e", "t", "r", "y">>,
      <<"p", "i", "p", "e", "l", "i", "n", "e">>,
      <<"A", "I">>,
      <<"o", "b", "s", "e", "r", "v", "a", "b", "i", "l", "i", "t", "y">>,
      <<"t", "r", "a", "c", "i", "n", "g">>,
      <<"q", "u", "e", "u", "e">>>>

TitleExtraSet ==
    {<<"r", "u", "s", "t">>,
     <<"R", "e", "t", "r", "y", ",">>,
     <<"w", "e", "b", "3">>,
     <<"a", "n", "d">>}

TitlePrefixSet ==
    {<<>>, <<"A", "s", "k", " ", "H", "N", ":", " ">>, <<"S", "h", "o", "w", " ", "H", "N", ":">>, <<"a", "s", "k", " ", " ", "h", "n", ":", " ">>}

RECURSIVE JoinTitle(_, _, _)
\* the words joined by blanks, by " - " after word number dash
JoinTitle(words, k, dash) ==
    IF k > Len(words) THEN <<>>
    ELSE words[k] \o (IF k = Len(words) THEN <<>>
                      ELSE IF k = dash THEN <<" ", "-", " ">> ELSE <<" ">>)
         \o JoinTitle(words, k + 1, dash)

\* a title and the words it was made of
TitleSet ==
    {[prefix |-> p, words |-> SubSeq(TitlePool, i, j) \o e, dash |-> d,
      title |-> p \o JoinTitle(SubSeq(TitlePool, i, j) \o e, 1, d)] :
        p \in TitlePrefixSet, i \in 1..2, j \in 0..Len(TitlePool),
        e \in {<<>>} \cup {<<x>> : x \in TitleExtraSet}, d \in 0..2}

InitKeywords ==
    /\ pc = "extract_keywords"
    /\ arg \in {t \in TitleSet : Len(t.words) <= MaxTitleWords}
    /\ ev = NoEvidence
    /\ ret = <<>>
    /\ MainUnused

ExtractKeywordsCall ==
    /\ pc = "extract_keywords"
    /\ ret' = extract_keywords(arg.title)
    /\ pc' = "keywords_extracted"
    /\ UNCHANGED <<arg, ev, mainVars>>

NextKeywords == ExtractKeywordsCall

SpecKeywords == InitKeywords /\ [][NextKeywords]_vars

ClaimIsAlnum(c) == IsLetter(c) \/ c \in Digits

\* the lowercased word a token of the title stands for
ClaimWordOf(token) == SelectSeq(Lower(token), ClaimIsAlnum)

ClaimIsCandidate(w) == Str(w) \notin STOP_WORDS /\ Len(w) >= 3

\* the words of the title in order, prefix and separator left out, without
\* stop words and short words
ClaimCandidates ==
    SelectSeq([k \in 1..Len(arg.words) |-> ClaimWordOf(arg.words[k])], ClaimIsCandidate)

\* C25: extract_keywords returns the first 6 distinct lowercased words of the
\* title that are neither stop words nor shorter than 3 characters, in order
\* of first occurrence, the "Ask HN:" / "Show HN:" prefix and the " - "
\* separator contributing nothing
C25_KeywordsInOrderOfFirstOccurrence ==
    pc = "keywords_extracted" =>
        LET c == ClaimCandidates
            n == Cardinality({c[k] : k \in 1..Len(c)})
        IN  /\ Len(ret) = IF n < 6 THEN n ELSE 6
            /\ \A i \in 1..Len(ret) :
                  \E k \in 1..Len(c) :
                      /\ c[k] = ret[i]
                      /\ Cardinality({c[j] : j \in 1..(k - 1)}) = i - 1
                      /\ \A j \in 1..(k - 1) : c[j] # ret[i]

\* a prefixed "Name - Tagline" title with a stop word, a short word, a word
\* repeated in another case and more than 6 keywords
C25_Witness ==
    /\ pc = "keywords_extracted"
    /\ arg.prefix # <<>> /\ arg.dash = 1
    /\ Len(arg.words) = 8
    /\ arg.words[1] = <<"R", "u", "s", "t">> /\ arg.words[8] = <<"r", "u", "s", "t">>
    /\ Len(ClaimCandidates) = 6
    /\ Len(ret) = 5
    /\ ret[1] = <<"r", "u", "s", "t">>

\* a title with more than 6 keywords
C25_WitnessCapped ==
    /\ pc = "keywords_extracted"
    /\ Cardinality({ClaimCandidates[k] : k \in 1..Len(ClaimCandidates)}) > 6
    /\ Len(ret) = 6

----------------------------------------------------------------------------
(* Claims about the stages of a validation run.                            *)

\* the stage a position of the run belongs to
ClaimStage(p) ==
    IF p = "start" THEN 0
    ELSE IF p = "classify" THEN 1
    ELSE IF p \in {"evidence_trends", "evidence_github", "evidence_producthunt"} THEN 2
    ELSE IF p = "synthesize" THEN 3
    ELSE IF p = "assemble" THEN 4
    ELSE 5

\* the number of batches of n signals
ClaimBatches(n, size) == CHOOSE b \in 0..n : b * size >= n /\ (b - 1) * size < n

\* C26: the stages follow one another and none starts before the one before
\* it has handled every batch or signal: evidence starts when the last
\* classification batch has returned, synthesis when the last signal has its
\* evidence bundle, assembly when the last synthesis batch has returned; in
\* the evidence stage the signals are taken one at a time in list order, the
\* three executors in turn for each
C26_StagesNeverOverlap ==
    /\ [](pc = "classify" => (evidence_list = <<>> /\ narratives = <<>>))
    /\ [](ClaimStage(pc) = 2 =>
            (Len(evidence_list) = idx /\ idx < Len(signals) /\ narratives = <<>>))
    /\ [](ClaimStage(pc) \in {3, 4} => Len(evidence_list) = Len(signals))
    /\ [](ClaimStage(pc) \in 0..3 => ~outfile.written)
    /\ [][/\ ClaimStage(pc') >= ClaimStage(pc)
          /\ ClaimStage(pc') \in {ClaimStage(pc), ClaimStage(pc) + 1, 5}
          /\ (ClaimStage(pc) = 1 /\ ClaimStage(pc') = 1) => idx' = idx + 1
          /\ (ClaimStage(pc) = 1 /\ ClaimStage(pc') = 2) =>
                idx + 1 = ClaimBatches(Len(signals), env.batch_size)
          /\ (ClaimStage(pc) = 2 /\ ClaimStage(pc') = 2) =>
                \/ /\ <<pc, pc'>> \in {<<"evidence_trends", "evidence_github">>,
                                       <<"evidence_github", "evidence_producthunt">>}
                   /\ idx' = idx /\ evidence_list' = evidence_list
                \/ /\ <<pc, pc'>> = <<"evidence_producthunt", "evidence_trends">>
                   /\ idx' = idx + 1 /\ Len(evidence_list') = idx + 1
                   /\ SubSeq(evidence_list', 1, idx) = evidence_list
          /\ (ClaimStage(pc) = 2 /\ ClaimStage(pc') = 3) =>
                (pc = "evidence_producthunt" /\ idx + 1 = Len(signals))
          /\ (ClaimStage(pc) = 3 /\ ClaimStage(pc') = 3) =>
                (idx' = idx + 1 /\ evidence_list' = evidence_list)
          /\ (ClaimStage(pc) = 3 /\ ClaimStage(pc') = 4) =>
                idx + 1 = ClaimBatches(Len(signals), env.batch_size)
          /\ classifications' # classifications => ClaimStage(pc) \in {0, 1}
          /\ narratives' # narratives => (ClaimStage(pc') = 3 \/ ClaimStage(pc) = 3)
         ]_vars

\* a run of two signals in two batches has passed every stage
C26_Witness ==
    /\ pc = "done"
    /\ Len(signals) = 2 /\ env.batch_size = 1
    /\ outfile.written /\ Len(outfile.records) = 2

\* signal number k (from 1) belongs to batch number b (from 0)
ClaimInBatch(k, b, size) == b * size < k /\ k <= (b + 1) * size

\* C28: the step that handles the AI response of batch idx leaves the
\* classification and the narrative of every signal outside that batch as
\* they were, whatever signal_index values the response carries
C28_ResponseStaysInBatch ==
    [][/\ pc = "classify" =>
            \A k \in 1..Len(signals) :
                ~ClaimInBatch(k, idx, env.batch_size) =>
                    classifications'[k] = classifications[k]
       /\ pc = "synthesize" =>
            \A k \in 1..Len(signals) :
                ~ClaimInBatch(k, idx, env.batch_size) => narratives'[k] = narratives[k]
      ]_vars

----------------------------------------------------------------------------
(* Unit: the classification loop of main() on two signals, with the        *)
(* outcome of the AI calls of every batch kept in arg.                     *)

InitClassifyStage ==
    /\ pc = "classify"
    /\ env \in [batch_size : {1, 2}]
    /\ \E scored \in ScoredSet :
          /\ Len(scored) = 2
          /\ signals = load_scored_signals(scored, MaxSignals)
    /\ classifications = [k \in 1..Len(signals) |-> NoClassification]
    /\ idx = 0
    /\ arg = <<>>
    /\ evidence_list = <<>> /\ narratives = <<>> /\ cur = NoCurrent
    /\ outfile = NoOutput /\ crash = ""
    /\ ev = NoEvidence /\ ret = NoSummary /\ table = NoValue

\* one iteration of the classification loop; arg gets the kinds of the
\* responses to the first and, when it was made, to the second call
ClassifyBatchKept ==
    /\ pc = "classify"
    /\ \E attempts \in Attempts(ClassifyElementSet) :
          /\ ClassifyStep(attempts)
          /\ arg' = Append(arg, [first |-> attempts[1].kind,
                                 second |-> IF attempts[1].kind = "malformed"
                                            THEN attempts[2].kind ELSE "not called"])
    /\ UNCHANGED <<env, signals, evidence_list, narratives, cur, outfile, ev, ret, table>>

NextClassifyStage == ClassifyBatchKept

SpecClassifyStage == InitClassifyStage /\ [][NextClassifyStage]_vars

\* the calls of the batch gave no array: the first call raised, or the first
\* response could not be parsed and the second call raised or could not be
\* parsed either
ClaimBatchFailed(calls) ==
    \/ calls.first = "raise"
    \/ calls.first = "malformed" /\ calls.second \in {"raise", "malformed"}

\* C27: a batch gets a second AI call only after a first response that could
\* not be parsed, never after a call that raised, and never a third one; the
\* signals of a batch whose calls gave no array have no classification once
\* the loop has ended, so that they receive the fallback
C27_FailedBatchFallsBack ==
    /\ \A b \in 1..Len(arg) :
          /\ arg[b].second # "not called" => arg[b].first = "malformed"
          /\ arg[b].first = "malformed" => arg[b].second # "not called"
    /\ pc = "evidence_trends" =>
          \A b \in 1..Len(arg) :
              ClaimBatchFailed(arg[b]) =>
                  \A k \in 1..Len(signals) :
                      ClaimInBatch(k, b - 1, env.batch_size) =>
                          classifications[k] = NoClassification

----------------------------------------------------------------------------
(* Unit: the loader's normalize_scored_signal on one scored signal record, *)
(* against the signal_id of the validator and of the tweet generator.      *)

\* scored signal records of every source branch, with a native id and with
\* an id that already has the composite form
ScoredRecordSet ==
    {r \in RawRecordSet : ~r.github.present}
    \cup {[r EXCEPT !.id = r.source \o <<":", "7">>] :
             r \in {q \in RawRecordSet : ~q.github.present}}

InitScored ==
    /\ pc = "normalize_scored"
    /\ arg \in ScoredRecordSet
    /\ ev = NoEvidence
    /\ ret = NoValue
    /\ MainUnused

NormalizeScoredCall ==
    /\ pc = "normalize_scored"
    /\ ret' = normalize_scored_signal(arg)
    /\ pc' = "normalized"
    /\ UNCHANGED <<arg, ev, mainVars>>

NextScored == NormalizeScoredCall

SpecScored == InitScored /\ [][NextScored]_vars

\* C29: the id under which the loader stores a scored signal record equals
\* the signal_id that the validator and the tweet generator derive from the
\* same record, also when the record's id already has the form source:native
C29_StoredIdIsSignalId ==
    pc = "normalized" => ret.id = SignalId(arg)

----------------------------------------------------------------------------
(* Unit: the synthesis stage and the assembly of main() run again on the   *)
(* same signals and the same evidence_list.                                *)

\* what a parsed synthesizer array may hold here: a scalar, an object with a
\* blank narrative and no index, and objects with a narrative for an index
\* inside or outside the batch, with and without keys of their own for
\* confidence and sources_confirming
SynthRerunElementSet ==
    {SynthElement("scalar", FALSE, 0, <<>>),
     SynthElement("object", FALSE, 0, <<" ">>)}
    \cup {[SynthElement("object", TRUE, i, NarrativeTextAI) EXCEPT !.extra = x] :
             i \in {0, 1, -1},
             x \in {NoExtra,
                    [present |-> TRUE, confidence |-> "high", sources_confirming |-> 4]}}

InitSynthRerun ==
    /\ pc = "synthesize"
    /\ env \in [batch_size : {1, 2}]
    /\ signals = load_scored_signals(<<SignalWeak, SignalStrong>>, MaxSignals)
    /\ classifications = [k \in 1..Len(signals) |-> NoClassification]
    /\ \E e \in {x \in RerunEvidenceSet : x.ph.status = "ok" /\ x.gt.status = "ok"} :
          evidence_list = [k \in 1..Len(signals) |->
                              EvidenceBundle(signals[k], classifications[k], e.gt, e.gh,
                                             e.ph)]
    /\ narratives = [k \in 1..Len(signals) |-> NoNarrative]
    /\ idx = 0 /\ cur = NoCurrent /\ outfile = NoOutput /\ crash = ""
    /\ arg = NoValue /\ ev = NoEvidence /\ table = NoValue
    /\ ret = <<>>

\* one iteration of the synthesis loop
SynthesizeBatchRerun ==
    /\ pc = "synthesize"
    /\ \E attempts \in Attempts(SynthRerunElementSet) : SynthesizeStep(attempts)
    /\ UNCHANGED <<env, signals, classifications, evidence_list, cur, outfile, unitVars>>

\* the run has ended; what it wrote is kept in ret and the stage starts again
NextRun ==
    /\ pc \in {"done", "crashed"}
    /\ Len(ret) < MaxRuns - 1
    /\ ret' = Append(ret, outfile)
    /\ pc' = "synthesize"
    /\ narratives' = [k \in 1..Len(signals) |-> NoNarrative]
    /\ idx' = 0 /\ outfile' = NoOutput /\ crash' = ""
    /\ UNCHANGED <<env, signals, classifications, evidence_list, cur, arg, ev, table>>

NextSynthRerun ==
    \/ SynthesizeBatchRerun
    \/ Assemble
    \/ NextRun

SpecSynthRerun == InitSynthRerun /\ [][NextSynthRerun]_vars

\* the fields of a record that the evidence stage computed
ClaimEvidenceFields(r) ==
    <<r.confidence, r.sources_confirming, r.evidence_google_trends,
      r.evidence_producthunt, r.evidence_github>>

\* C30: runs over the same signals and the same evidence that differ only in
\* what the synthesizer returned write records with the same confidence,
\* sources_confirming and evidence fields
C30_SynthesizerCannotChangeConfidence ==
    (pc = "done" /\ outfile.written) =>
        \A j \in 1..Len(ret) :
            ret[j].written =>
                /\ Len(ret[j].records) = Len(outfile.records)
                /\ \A k \in 1..Len(outfile.records) :
                      ClaimEvidenceFields(ret[j].records[k])
                          = ClaimEvidenceFields(outfile.records[k])

\* two runs wrote their records: in the first the synthesizer gave nothing
\* for the first signal, whose record has the fallback narrative; in the
\* second it returned for that signal a narrative claiming High confidence
\* with a confidence key of its own, while the computed confidence is not
\* high
C30_Witness ==
    /\ pc = "done" /\ outfile.written
    /\ ret # <<>> /\ ret[1].written
    /\ ret[1].records[1].narrative # NarrativeFromAI
    /\ narratives[1].present /\ narratives[1].extra.present
    /\ outfile.records[1].narrative = NarrativeFromAI
    /\ outfile.records[1].confidence # "high"

============================================================================
